---------------------------- MODULE Spec2Model ----------------------------
(***************************************************************************)
(* Model of d3-domain-tool: the valuation engine (package valuation), the  *)
(* analyzer that orchestrates the lookups (package analyzer) and the       *)
(* collaborators it calls (doma, blockchain, checker, whois).              *)
(*                                                                         *)
(* Strings are sequences of one-character strings.  float64 values are     *)
(* modelled bit-exactly (IEEE-754 binary64, round to nearest even) on      *)
(* multi-limb naturals, because the engine truncates a float64 product to  *)
(* an int and the truncation depends on the rounding of every step.        *)
(***************************************************************************)
EXTENDS Integers, Sequences, FiniteSets, TLC

(***************************************************************************)
(* Multi-limb naturals: little-endian sequences of limbs below LimbBase.   *)
(***************************************************************************)
LimbBits == 14

LimbBase == 2^LimbBits

MantBits == 53

RECURSIVE BigNorm(_)
BigNorm(a) ==
    IF a = <<>> THEN <<>>
    ELSE IF a[Len(a)] = 0 THEN BigNorm(SubSeq(a, 1, Len(a) - 1))
    ELSE a

BigIsZero(a) == BigNorm(a) = <<>>

\* limb i of a, 0 beyond its length
BigLimb(a, i) == IF i \in DOMAIN a THEN a[i] ELSE 0

BigMaxLen(a, b) == IF Len(a) < Len(b) THEN Len(b) ELSE Len(a)

\* the carry into limb i of a + b: a lower limb sum overflows and every limb
\* sum between it and i passes a carry on
BigCarry(a, b, i) ==
    \E j \in 1..(i - 1) :
        /\ BigLimb(a, j) + BigLimb(b, j) >= LimbBase
        /\ \A k \in (j + 1)..(i - 1) : BigLimb(a, k) + BigLimb(b, k) >= LimbBase - 1

BigAddLimb(a, b, i) ==
    (BigLimb(a, i) + BigLimb(b, i) + (IF BigCarry(a, b, i) THEN 1 ELSE 0)) % LimbBase

BigAdd(a, b) ==
    [i \in 1..BigMaxLen(a, b) |-> BigAddLimb(a, b, i)]
        \o (IF BigCarry(a, b, BigMaxLen(a, b) + 1) THEN <<1>> ELSE <<>>)

\* the borrow from limb i of a - b: a lower limb of a is short and every limb
\* between it and i passes the borrow on
BigBorrow(a, b, i) ==
    \E j \in 1..(i - 1) :
        /\ BigLimb(a, j) < BigLimb(b, j)
        /\ \A k \in (j + 1)..(i - 1) : BigLimb(a, k) <= BigLimb(b, k)

BigSubLimb(a, b, i) ==
    (LimbBase + BigLimb(a, i) - BigLimb(b, i) - (IF BigBorrow(a, b, i) THEN 1 ELSE 0))
        % LimbBase

\* a - b for a >= b
BigSub(a, b) == BigNorm([i \in 1..Len(a) |-> BigSubLimb(a, b, i)])

\* -1, 0, 1 as a < b, a = b, a > b (both normalised)
RECURSIVE BigCmpN(_, _, _)
BigCmpN(a, b, i) ==
    IF i = 0 THEN 0
    ELSE IF a[i] < b[i] THEN -1
    ELSE IF a[i] > b[i] THEN 1
    ELSE BigCmpN(a, b, i - 1)

BigCmp(a, b) ==
    LET x == BigNorm(a)
        y == BigNorm(b)
    IN  IF Len(x) < Len(y) THEN -1
        ELSE IF Len(x) > Len(y) THEN 1
        ELSE BigCmpN(x, y, Len(x))

\* s without its limb n + 1 when that limb is 0
BigDropTop(s, n) == IF s[n + 1] = 0 THEN SubSeq(s, 1, n) ELSE s

\* a * d for a limb d: the low halves of the limb products plus their high
\* halves one limb up
BigMulLimb(a, d) ==
    IF a = <<>> THEN <<>>
    ELSE BigDropTop(BigAdd([i \in DOMAIN a |-> (a[i] * d) % LimbBase],
                           <<0>> \o [i \in DOMAIN a |-> (a[i] * d) \div LimbBase]),
                    Len(a))

\* column k of the schoolbook product: the sum of a[i] * b[k + 1 - i] over the
\* first n limbs of a (at most four, so that the sum stays below 2^31)
RECURSIVE BigColumn(_, _, _, _)
BigColumn(a, b, k, n) ==
    IF n = 0 THEN 0
    ELSE BigLimb(a, n) * BigLimb(b, k + 1 - n) + BigColumn(a, b, k, n - 1)

\* the columns of a * b, each split over three limbs
BigColumnLimbs(a, b, part) ==
    [k \in 1..(Len(a) + Len(b) - 1) |->
        (BigColumn(a, b, k, Len(a)) \div LimbBase^part) % LimbBase]

BigMul(a, b) ==
    IF a = <<>> \/ b = <<>> THEN <<>>
    ELSE BigNorm(BigAdd(BigAdd(BigColumnLimbs(a, b, 0),
                               <<0>> \o BigColumnLimbs(a, b, 1)),
                        <<0, 0>> \o BigColumnLimbs(a, b, 2)))

BigShl(a, k) ==
    [i \in 1..(k \div LimbBits) |-> 0] \o BigMulLimb(a, 2^(k % LimbBits))

\* floor(a / 2^k)
BigShr(a, k) ==
    LET q == k \div LimbBits
        r == k % LimbBits
        n == Len(a)
        At(i) == IF i <= n THEN a[i] ELSE 0
    IN  IF q >= n THEN <<>>
        ELSE BigNorm([i \in 1..(n - q) |->
                 (At(i + q) \div 2^r) + (At(i + q + 1) % 2^r) * 2^(LimbBits - r)])

BigBit(a, i) ==
    LET q == i \div LimbBits
    IN  IF q + 1 > Len(a) THEN 0 ELSE (a[q + 1] \div 2^(i % LimbBits)) % 2

\* a mod 2^k # 0
BigLowNonZero(a, k) ==
    LET q == k \div LimbBits
        r == k % LimbBits
    IN  \/ \E i \in 1..Len(a) : i <= q /\ a[i] # 0
        \/ q + 1 <= Len(a) /\ a[q + 1] % 2^r # 0

RECURSIVE LimbBitLen(_)
LimbBitLen(x) == IF x = 0 THEN 0 ELSE 1 + LimbBitLen(x \div 2)

BigBitLen(a) ==
    LET x == BigNorm(a)
    IN  IF x = <<>> THEN 0 ELSE LimbBits * (Len(x) - 1) + LimbBitLen(x[Len(x)])

\* LimbBase^k mod d for k = 0..5
BigBaseMod(k, d) ==
    LET p1 == LimbBase % d
        p2 == (p1 * p1) % d
        p4 == (p2 * p2) % d
    IN  IF k = 0 THEN 1 % d
        ELSE IF k = 1 THEN p1
        ELSE IF k = 2 THEN p2
        ELSE IF k = 3 THEN (p2 * p1) % d
        ELSE IF k = 4 THEN p4
        ELSE (p4 * p1) % d

\* (limbs i.. of a) mod d for a of at most six limbs: the remainder the long
\* division carries into limb i - 1
BigTopMod(a, d, i) ==
    (  BigLimb(a, i) * BigBaseMod(0, d)     + BigLimb(a, i + 1) * BigBaseMod(1, d)
     + BigLimb(a, i + 2) * BigBaseMod(2, d) + BigLimb(a, i + 3) * BigBaseMod(3, d)
     + BigLimb(a, i + 4) * BigBaseMod(4, d) + BigLimb(a, i + 5) * BigBaseMod(5, d)) % d

\* quotient and remainder of a by a one-limb divisor d
BigDivLimb(a, d) ==
    [q |-> BigNorm([i \in DOMAIN a |->
                       (BigTopMod(a, d, i + 1) * LimbBase + a[i]) \div d]),
     r |-> BigTopMod(a, d, 1)]

\* the number of trailing zero bits of a > 0
BigTrailingZeros(a) ==
    CHOOSE k \in 0..(LimbBits * Len(a)) :
        BigBit(a, k) = 1 /\ \A j \in 0..(k - 1) : BigBit(a, j) = 0

BigFromInt(n) == BigNorm(<<n % LimbBase, (n \div LimbBase) % LimbBase,
                           n \div (LimbBase * LimbBase)>>)

RECURSIVE BigToInt(_)
BigToInt(a) == IF a = <<>> THEN 0 ELSE Head(a) + LimbBase * BigToInt(Tail(a))

(***************************************************************************)
(* float64.  A value is [neg, m, e] standing for (-1)^neg * m * 2^e with   *)
(* m a MantBits-bit natural, or FZero.  The exponents of this program stay *)
(* far inside the normal range, so overflow and subnormals do not arise.   *)
(***************************************************************************)
FZero == [neg |-> FALSE, m |-> <<>>, e |-> 0]

FIsZero(x) == x.m = <<>>

\* the rounded mantissa q may have grown to MantBits + 1 bits
FRenorm(neg, q, e) ==
    IF BigBitLen(q) > MantBits THEN [neg |-> neg, m |-> BigShr(q, 1), e |-> e + 1]
    ELSE [neg |-> neg, m |-> q, e |-> e]

\* round to nearest, ties to even: q the kept bits, rb the first dropped bit,
\* st whether any later dropped bit is set
FRoundUp(neg, q, rb, st, e) ==
    FRenorm(neg, IF rb /\ (st \/ BigBit(q, 0) = 1) THEN BigAdd(q, <<1>>) ELSE q, e)

\* a of n bits to MantBits bits
FRoundBits(neg, a, n, e, sticky) ==
    IF n <= MantBits
    THEN [neg |-> neg, m |-> BigShl(a, MantBits - n), e |-> e - (MantBits - n)]
    ELSE FRoundUp(neg, BigShr(a, n - MantBits), BigBit(a, n - MantBits - 1) = 1,
                  sticky \/ BigLowNonZero(a, n - MantBits - 1), e + (n - MantBits))

\* the float64 nearest to (-1)^neg * (a + sticky) * 2^e
FRound(neg, a, e, sticky) ==
    IF BigIsZero(a) THEN FZero
    ELSE FRoundBits(neg, BigNorm(a), BigBitLen(a), e, sticky)

\* exact values [neg, a, e]; the sum of two of them, aligned to one exponent
ExactAddAligned(xneg, ax, yneg, ay, c, e) ==
    IF xneg = yneg THEN [neg |-> xneg, a |-> BigAdd(ax, ay), e |-> e]
    ELSE IF c = 0 THEN [neg |-> FALSE, a |-> <<>>, e |-> 0]
    ELSE IF c > 0 THEN [neg |-> xneg, a |-> BigSub(ax, ay), e |-> e]
    ELSE [neg |-> yneg, a |-> BigSub(ay, ax), e |-> e]

ExactAddAt(x, y, e) ==
    ExactAddAligned(x.neg, BigShl(x.a, x.e - e), y.neg, BigShl(y.a, y.e - e),
                    BigCmp(BigShl(x.a, x.e - e), BigShl(y.a, y.e - e)), e)

ExactAdd(x, y) ==
    IF BigIsZero(x.a) THEN y
    ELSE IF BigIsZero(y.a) THEN x
    ELSE ExactAddAt(x, y, IF x.e < y.e THEN x.e ELSE y.e)

ExactOf(x) == [neg |-> x.neg, a |-> x.m, e |-> x.e]

ExactMul(x, y) ==
    [neg |-> x.neg # y.neg, a |-> BigMul(x.m, y.m), e |-> x.e + y.e]

FOfExact(u) == FRound(u.neg, u.a, u.e, FALSE)

FFromInt(n) == IF n < 0 THEN FRound(TRUE, BigFromInt(-n), 0, FALSE)
               ELSE FRound(FALSE, BigFromInt(n), 0, FALSE)

FNeg(x) == IF FIsZero(x) THEN x ELSE [x EXCEPT !.neg = ~x.neg]

FMul(x, y) == IF FIsZero(x) \/ FIsZero(y) THEN FZero ELSE FOfExact(ExactMul(x, y))

FAdd(x, y) ==
    IF FIsZero(x) THEN y
    ELSE IF FIsZero(y) THEN x
    ELSE FOfExact(ExactAdd(ExactOf(x), ExactOf(y)))

FSub(x, y) == FAdd(x, FNeg(y))

\* x*y + z rounded once (a fused multiply-add instruction)
FMulAdd(x, y, z) ==
    IF FIsZero(x) \/ FIsZero(y) THEN z
    ELSE FOfExact(ExactAdd(ExactMul(x, y), ExactOf(z)))

\* x / (d * 2^t) from the quotient and remainder of x.m * 2^(2 LimbBits) by d
FDivRound(neg, qr, e) == FRound(neg, qr.q, e, qr.r # 0)

FDivOdd(x, yneg, d, t) ==
    FDivRound(x.neg # yneg, BigDivLimb(BigShl(x.m, 2 * LimbBits), d),
              x.e - 2 * LimbBits - t)

FDivTz(x, y, tz) == FDivOdd(x, y.neg, BigToInt(BigShr(y.m, tz)), y.e + tz)

\* x / y for a divisor whose odd part fits one limb (the program divides by
\* 10.0, 5.0 and small counts only)
FDiv(x, y) == IF FIsZero(x) THEN FZero ELSE FDivTz(x, y, BigTrailingZeros(y.m))

\* -1, 0, 1 as x < y, x = y, x > y
ExactSign(d) == IF BigIsZero(d.a) THEN 0 ELSE IF d.neg THEN -1 ELSE 1

FCmp(x, y) == IF x = y THEN 0 ELSE ExactSign(ExactAdd(ExactOf(x), ExactOf(FNeg(y))))

FLt(x, y) == FCmp(x, y) < 0

FLe(x, y) == FCmp(x, y) <= 0

FMax(x, y) == IF FLt(x, y) THEN y ELSE x

\* Go's int(x): truncation toward zero
FTruncMag(x) ==
    IF x.e >= 0 THEN BigToInt(BigShl(x.m, x.e)) ELSE BigToInt(BigShr(x.m, 0 - x.e))

FTrunc(x) ==
    IF FIsZero(x) THEN 0 ELSE IF x.neg THEN 0 - FTruncMag(x) ELSE FTruncMag(x)

\* the float64 nearest to the decimal literal n/d (d = 1, 2, 5 or 10)
FLit(n, d) == FDiv(FFromInt(n), FFromInt(d))

(***************************************************************************)
(* Strings.  A string is a sequence of runes; an ASCII rune is written as  *)
(* the one-character string, and "U+00E9" is the two-byte letter e-acute.  *)
(***************************************************************************)
LowerSeq ==
    <<"a","b","c","d","e","f","g","h","i","j","k","l","m",
      "n","o","p","q","r","s","t","u","v","w","x","y","z">>

UpperSeq ==
    <<"A","B","C","D","E","F","G","H","I","J","K","L","M",
      "N","O","P","Q","R","S","T","U","V","W","X","Y","Z">>

Range(s) == {s[i] : i \in DOMAIN s}

MultiByteLetters == {"U+00E9"}

IsLower(r) == r \in Range(LowerSeq) \cup MultiByteLetters

IsUpper(r) == r \in Range(UpperSeq)

IsLetter(r) == IsLower(r) \/ IsUpper(r)

IsDigit(r) == r \in {"0","1","2","3","4","5","6","7","8","9"}

ToLowerRune(r) ==
    IF IsUpper(r) THEN LowerSeq[CHOOSE i \in DOMAIN UpperSeq : UpperSeq[i] = r] ELSE r

ToLower(s) == [i \in DOMAIN s |-> ToLowerRune(s[i])]

\* the runes of unicode.IsSpace, by the bytes of their UTF-8 encoding
OneByteSpaces == {"\t", "\n", "U+000B", "\f", "\r", " "}

TwoByteSpaces == {"U+0085", "U+00A0"}

ThreeByteSpaces ==
    {"U+1680", "U+2000", "U+2001", "U+2002", "U+2003", "U+2004", "U+2005",
     "U+2006", "U+2007", "U+2008", "U+2009", "U+200A", "U+2028", "U+2029",
     "U+202F", "U+205F", "U+3000"}

RuneLen(r) ==
    IF r \in MultiByteLetters \cup TwoByteSpaces THEN 2
    ELSE IF r \in ThreeByteSpaces THEN 3
    ELSE 1

\* Go's len(s): the length in bytes
RECURSIVE GoLen(_)
GoLen(s) == IF s = <<>> THEN 0 ELSE RuneLen(Head(s)) + GoLen(Tail(s))

Contains(s, sub) ==
    \E i \in 0..(Len(s) - Len(sub)) : SubSeq(s, i + 1, i + Len(sub)) = sub

HasPrefix(s, p) == Len(p) <= Len(s) /\ SubSeq(s, 1, Len(p)) = p

HasSuffix(s, p) == Len(p) <= Len(s) /\ SubSeq(s, Len(s) - Len(p) + 1, Len(s)) = p

\* strings.Split(s, "."): the labels between the dots, never empty as a list
RECURSIVE SplitDot(_)
SplitDot(s) ==
    IF \A i \in DOMAIN s : s[i] # "."
    THEN <<s>>
    ELSE LET k == CHOOSE i \in DOMAIN s : s[i] = "." /\ \A j \in 1..(i - 1) : s[j] # "."
         IN  <<SubSeq(s, 1, k - 1)>> \o SplitDot(SubSeq(s, k + 1, Len(s)))

(***************************************************************************)
(* package valuation                                                       *)
(***************************************************************************)
F0 == FZero

F1 == FFromInt(1)

F2 == FFromInt(2)

F3 == FFromInt(3)

F4 == FFromInt(4)

F5 == FFromInt(5)

F6 == FFromInt(6)

F8 == FFromInt(8)

F10 == FFromInt(10)

F100 == FFromInt(100)

FMillion == FFromInt(1000000)

\* the literals 0.5, 0.6, 0.7, 1.2 and 1.5
F0_5 == FLit(5, 10)

F0_6 == FLit(6, 10)

F0_7 == FLit(7, 10)

F1_2 == FLit(12, 10)

F1_5 == FLit(15, 10)

PremiumWordList ==
    << <<"a","p","p">>,
       <<"w","e","b">>,
       <<"t","e","c","h">>,
       <<"c","r","y","p","t","o">>,
       <<"b","l","o","c","k","c","h","a","i","n">>,
       <<"a","i">>,
       <<"m","l">>,
       <<"d","a","t","a">>,
       <<"c","l","o","u","d">>,
       <<"a","p","i">>,
       <<"d","e","v">>,
       <<"c","o","d","e">>,
       <<"d","i","g","i","t","a","l">>,
       <<"o","n","l","i","n","e">>,
       <<"s","m","a","r","t">>,
       <<"a","u","t","o">>,
       <<"h","e","a","l","t","h">>,
       <<"f","i","n","a","n","c","e">>,
       <<"b","a","n","k">>,
       <<"p","a","y">>,
       <<"s","h","o","p">>,
       <<"s","t","o","r","e">>,
       <<"g","a","m","e">>,
       <<"p","l","a","y">>,
       <<"s","o","c","i","a","l">>,
       <<"n","e","t","w","o","r","k">>,
       <<"s","e","c","u","r","i","t","y">>,
       <<"p","r","i","v","a","c","y">> >>

CommonTLDTable ==
    (<<".","c","o","m">> :> FLit(10, 10)) @@
    (<<".","n","e","t">> :> FLit(7, 10)) @@
    (<<".","o","r","g">> :> FLit(6, 10)) @@
    (<<".","i","o">> :> FLit(8, 10)) @@
    (<<".","c","o">> :> FLit(6, 10)) @@
    (<<".","a","p","p">> :> FLit(7, 10)) @@
    (<<".","d","e","v">> :> FLit(6, 10)) @@
    (<<".","t","e","c","h">> :> FLit(5, 10)) @@
    (<<".","e","t","h">> :> FLit(9, 10)) @@
    (<<".","c","r","y","p","t","o">> :> FLit(8, 10)) @@
    (<<".","n","f","t">> :> FLit(7, 10))
NewEngine == [premiumWords |-> PremiumWordList, commonTLDs |-> CommonTLDTable]

ZeroFactors ==
    [Length |-> 0, LengthScore |-> F0, CharacterScore |-> F0, WordScore |-> F0,
     TLDScore |-> F0, Pronounceable |-> FALSE, Brandable |-> FALSE,
     HasNumbers |-> FALSE, HasHyphens |-> FALSE]

containsNumbers(s) == \E i \in DOMAIN s : IsDigit(s[i])

isAllLetters(s) == \A i \in DOMAIN s : IsLetter(s[i])

hasMixedCase(s) ==
    /\ \E i \in DOMAIN s : IsUpper(s[i])
    /\ \E i \in DOMAIN s : IsLower(s[i])

\* variant: the first tier ends below 3 instead of at 3
calculateLengthScoreBelow3(length) ==
    IF length < 3 THEN F10
    ELSE IF length <= 5 THEN F8
    ELSE IF length <= 7 THEN F6
    ELSE IF length <= 10 THEN F4
    ELSE IF length <= 15 THEN F2
    ELSE F1

calculateLengthScore(length) ==
    IF length <= 3 THEN F10
    ELSE IF length <= 5 THEN F8
    ELSE IF length <= 7 THEN F6
    ELSE IF length <= 10 THEN F4
    ELSE IF length <= 15 THEN F2
    ELSE F1

\* "if cond { score += delta }"
AddIf(cond, score, delta) == IF cond THEN FAdd(score, delta) ELSE score

\* "if cond { score -= delta }"
SubIf(cond, score, delta) == IF cond THEN FSub(score, delta) ELSE score

\* variant: the hyphen test is an "else if" of the digit test
calculateCharacterScoreElseIf(name) ==
    LET s0 == F5
        s1 == SubIf(containsNumbers(name), s0, F2)
        s2 == SubIf(~containsNumbers(name) /\ Contains(name, <<"-">>), s1, F1_5)
        s3 == AddIf(isAllLetters(name), s2, F1)
        s4 == SubIf(hasMixedCase(name), s3, F0_5)
    IN  FMax(F0, s4)

calculateCharacterScore(name) ==
    LET s0 == F5
        s1 == SubIf(containsNumbers(name), s0, F2)
        s2 == SubIf(Contains(name, <<"-">>), s1, F1_5)
        s3 == AddIf(isAllLetters(name), s2, F1)
        s4 == SubIf(hasMixedCase(name), s3, F0_5)
    IN  FMax(F0, s4)

CommonWords ==
    << <<"a","p","p">>,
       <<"w","e","b">>,
       <<"n","e","t">>,
       <<"t","e","c","h">>,
       <<"d","a","t","a">>,
       <<"i","n","f","o">>,
       <<"n","e","w","s">>,
       <<"s","h","o","p">>,
       <<"s","t","o","r","e">>,
       <<"g","a","m","e">>,
       <<"p","l","a","y">>,
       <<"w","o","r","k">>,
       <<"h","o","m","e">>,
       <<"l","i","f","e">>,
       <<"l","o","v","e">>,
       <<"t","i","m","e">>,
       <<"w","o","r","l","d">>,
       <<"b","e","s","t">>,
       <<"n","e","w">>,
       <<"t","o","p">>,
       <<"f","i","r","s","t">>,
       <<"l","a","s","t">>,
       <<"g","o","o","d">>,
       <<"g","r","e","a","t">>,
       <<"s","u","p","e","r">> >>

isLikelyDictionaryWord(name) == \E i \in DOMAIN CommonWords : name = CommonWords[i]

CompoundPrefixes ==
    << <<"w","e","b">>,
       <<"a","p","p">>,
       <<"m","y">>,
       <<"g","e","t">>,
       <<"t","h","e">>,
       <<"n","e","w">>,
       <<"t","o","p">>,
       <<"b","e","s","t">> >>

CompoundSuffixes ==
    << <<"a","p","p">>,
       <<"w","e","b">>,
       <<"n","e","t">>,
       <<"t","e","c","h">>,
       <<"h","u","b">>,
       <<"l","a","b">>,
       <<"p","r","o">>,
       <<"m","a","x">> >>

isLikelyCompoundWord(name) ==
    IF GoLen(name) < 6 THEN FALSE
    ELSE \/ \E i \in DOMAIN CompoundPrefixes :
               /\ HasPrefix(name, CompoundPrefixes[i])
               /\ GoLen(name) > GoLen(CompoundPrefixes[i]) + 2
         \/ \E i \in DOMAIN CompoundSuffixes :
               /\ HasSuffix(name, CompoundSuffixes[i])
               /\ GoLen(name) > GoLen(CompoundSuffixes[i]) + 2

\* "for _, word := range e.premiumWords { if strings.Contains(nameLower, word)
\* { score += 3.0 } }": the words of the list found in the name, in list order,
\* each adding 3.0
premiumMatches(words, nameLower) ==
    SelectSeq(words, LAMBDA word : Contains(nameLower, word))

RECURSIVE premiumScore(_, _, _)
premiumScore(words, nameLower, score) ==
    IF premiumMatches(words, nameLower) = <<>> THEN score
    ELSE premiumScore(Tail(premiumMatches(words, nameLower)), nameLower,
                      FAdd(score, F3))

\* variant: the premium word loop stops at the first word found
calculateWordScoreFirstMatch(e, name) ==
    LET nameLower == ToLower(name)
        s1 == AddIf(premiumMatches(e.premiumWords, nameLower) # <<>>, F0, F3)
        s2 == AddIf(isLikelyDictionaryWord(nameLower), s1, F2)
    IN  AddIf(isLikelyCompoundWord(nameLower), s2, F1)

calculateWordScore(e, name) ==
    LET nameLower == ToLower(name)
        s1 == premiumScore(e.premiumWords, nameLower, F0)
        s2 == AddIf(isLikelyDictionaryWord(nameLower), s1, F2)
    IN  AddIf(isLikelyCompoundWord(nameLower), s2, F1)

\* variant: a suffix that is not in the table scores nothing
calculateTLDScoreUnknownZero(e, tld) ==
    IF tld \in DOMAIN e.commonTLDs THEN FMul(e.commonTLDs[tld], F5) ELSE F0

calculateTLDScore(e, tld) ==
    IF tld \in DOMAIN e.commonTLDs THEN FMul(e.commonTLDs[tld], F5) ELSE F1

isVowel(r) == r \in {"a", "e", "i", "o", "u"}

\* variant: the lower bound of the ratio is exclusive
isPronounceableWordAboveHalf(name) ==
    LET low == ToLower(name)
        vowelCount == Cardinality({i \in DOMAIN low : isVowel(low[i])})
        consonantCount ==
            Cardinality({i \in DOMAIN low : ~isVowel(low[i]) /\ IsLetter(low[i])})
    IN  IF vowelCount = 0 THEN FALSE
        ELSE LET ratio == FDiv(FFromInt(consonantCount), FFromInt(vowelCount))
             IN  FLt(F0_5, ratio) /\ FLe(ratio, F4)

isPronounceableWord(name) ==
    LET low == ToLower(name)
        vowelCount == Cardinality({i \in DOMAIN low : isVowel(low[i])})
        consonantCount ==
            Cardinality({i \in DOMAIN low : ~isVowel(low[i]) /\ IsLetter(low[i])})
    IN  IF vowelCount = 0 THEN FALSE
        ELSE LET ratio == FDiv(FFromInt(consonantCount), FFromInt(vowelCount))
             IN  FLe(F0_5, ratio) /\ FLe(ratio, F4)

\* variant: names of up to 13 bytes are brandable
isBrandableUpTo13(name) ==
    IF GoLen(name) < 3 \/ GoLen(name) > 13 THEN FALSE
    ELSE IF containsNumbers(name) \/ Contains(name, <<"-">>) THEN FALSE
    ELSE IF ~isPronounceableWord(name) THEN FALSE
    ELSE TRUE

isBrandable(name) ==
    IF GoLen(name) < 3 \/ GoLen(name) > 12 THEN FALSE
    ELSE IF containsNumbers(name) \/ Contains(name, <<"-">>) THEN FALSE
    ELSE IF ~isPronounceableWord(name) THEN FALSE
    ELSE TRUE

analyzeDomain(e, name, tld) ==
    [Length |-> GoLen(name),
     HasNumbers |-> containsNumbers(name),
     HasHyphens |-> Contains(name, <<"-">>),
     LengthScore |-> calculateLengthScore(GoLen(name)),
     CharacterScore |-> calculateCharacterScore(name),
     WordScore |-> calculateWordScore(e, name),
     TLDScore |-> calculateTLDScore(e, tld),
     Pronounceable |-> isPronounceableWord(name),
     Brandable |-> isBrandable(name)]

\* "if cond { multiplier *= k }"
ScaleIf(cond, m, k) == IF cond THEN FMul(m, k) ELSE m

\* "if value < lo { value = lo }; if value > hi { value = hi }"
ClampLow(value, lo) == IF FLt(value, lo) THEN lo ELSE value

ClampHigh(value, hi) == IF FLt(hi, value) THEN hi ELSE value

\* "multiplier *= x; multiplier += y": two roundings, or one where the compiler
\* contracts them into a fused multiply-add (arm64, ppc64le, s390x, riscv64)
MulThenAdd(m, x, y, fused) == IF fused THEN FMulAdd(m, x, y) ELSE FAdd(FMul(m, x), y)

\* variant: the word bonus is added before the suffix factor is applied
calculateValueWordFirst(factors, fused) ==
    LET m1 == FMul(F1, FMul(FDiv(factors.LengthScore, F10), F2))
        m2 == FMul(m1, FDiv(factors.CharacterScore, F5))
        m4 == FMul(FAdd(m2, FDiv(factors.WordScore, F10)),
                   FDiv(factors.TLDScore, F5))
        m5 == ScaleIf(factors.Brandable, m4, F1_5)
        m6 == ScaleIf(factors.Pronounceable, m5, F1_2)
        m7 == ScaleIf(factors.HasNumbers, m6, F0_7)
        m8 == ScaleIf(factors.HasHyphens, m7, F0_6)
    IN  ClampHigh(ClampLow(FMul(F100, m8), F10), FMillion)

calculateValue(factors, fused) ==
    LET baseValue == F100
        m0 == F1
        m1 == FMul(m0, FMul(FDiv(factors.LengthScore, F10), F2))
        m2 == FMul(m1, FDiv(factors.CharacterScore, F5))
        m4 == MulThenAdd(m2, FDiv(factors.TLDScore, F5),
                         FDiv(factors.WordScore, F10), fused)
        m5 == ScaleIf(factors.Brandable, m4, F1_5)
        m6 == ScaleIf(factors.Pronounceable, m5, F1_2)
        m7 == ScaleIf(factors.HasNumbers, m6, F0_7)
        m8 == ScaleIf(factors.HasHyphens, m7, F0_6)
        value == FMul(baseValue, m8)
    IN  ClampHigh(ClampLow(value, F10), FMillion)

\* variant: the switch has no default case
determineConfidenceNoDefault(factors) ==
    LET score == (IF factors.Length <= 5 THEN 2 ELSE 0)
               + (IF factors.Brandable THEN 2 ELSE 0)
               + (IF factors.Pronounceable THEN 1 ELSE 0)
               + (IF FLe(F4, factors.TLDScore) THEN 2 ELSE 0)
               + (IF ~factors.HasNumbers /\ ~factors.HasHyphens THEN 1 ELSE 0)
    IN  IF score >= 6 THEN "high"
        ELSE IF score >= 3 THEN "medium"
        ELSE ""

\* variant: the suffix points need a score above 4.0
determineConfidenceAbove4(factors) ==
    LET score == (IF factors.Length <= 5 THEN 2 ELSE 0)
               + (IF factors.Brandable THEN 2 ELSE 0)
               + (IF factors.Pronounceable THEN 1 ELSE 0)
               + (IF FLt(F4, factors.TLDScore) THEN 2 ELSE 0)
               + (IF ~factors.HasNumbers /\ ~factors.HasHyphens THEN 1 ELSE 0)
    IN  IF score >= 6 THEN "high"
        ELSE IF score >= 3 THEN "medium"
        ELSE "low"

\* variant: "medium" needs 5 points
determineConfidenceMediumFrom5(factors) ==
    LET score == (IF factors.Length <= 5 THEN 2 ELSE 0)
               + (IF factors.Brandable THEN 2 ELSE 0)
               + (IF factors.Pronounceable THEN 1 ELSE 0)
               + (IF FLe(F4, factors.TLDScore) THEN 2 ELSE 0)
               + (IF ~factors.HasNumbers /\ ~factors.HasHyphens THEN 1 ELSE 0)
    IN  IF score >= 6 THEN "high"
        ELSE IF score >= 5 THEN "medium"
        ELSE "low"

\* variant: the clean-name point is given to every name
determineConfidenceCleanAlways(factors) ==
    LET score == (IF factors.Length <= 5 THEN 2 ELSE 0)
               + (IF factors.Brandable THEN 2 ELSE 0)
               + (IF factors.Pronounceable THEN 1 ELSE 0)
               + (IF FLe(F4, factors.TLDScore) THEN 2 ELSE 0)
               + 1
    IN  IF score >= 6 THEN "high"
        ELSE IF score >= 3 THEN "medium"
        ELSE "low"

determineConfidence(factors) ==
    LET score == (IF factors.Length <= 5 THEN 2 ELSE 0)
               + (IF factors.Brandable THEN 2 ELSE 0)
               + (IF factors.Pronounceable THEN 1 ELSE 0)
               + (IF FLe(F4, factors.TLDScore) THEN 2 ELSE 0)
               + (IF ~factors.HasNumbers /\ ~factors.HasHyphens THEN 1 ELSE 0)
    IN  IF score >= 6 THEN "high"
        ELSE IF score >= 3 THEN "medium"
        ELSE "low"

RECURSIVE Join(_, _)
Join(strs, sep) ==
    IF strs = <<>> THEN ""
    ELSE IF Len(strs) = 1 THEN strs[1]
    ELSE strs[1] \o sep \o Join(Tail(strs), sep)

\* "if cond { reasons = append(reasons, text) }"
AppendIf(cond, reasons, text) == IF cond THEN Append(reasons, text) ELSE reasons

\* variant: a word score of 2 already counts as valuable keywords
generateReasoningFrom2(factors) ==
    LET r1 == IF factors.Length <= 3 THEN <<"Very short domain (premium)">>
              ELSE IF factors.Length <= 5 THEN <<"Short and memorable">>
              ELSE IF factors.Length > 15 THEN <<"Long domain name">>
              ELSE <<>>
        r2 == AppendIf(factors.Brandable, r1, "Brandable name")
        r3 == AppendIf(factors.Pronounceable, r2, "Easy to pronounce")
        r4 == AppendIf(FLe(F2, factors.WordScore), r3, "Contains valuable keywords")
        r5 == AppendIf(factors.HasNumbers, r4, "Contains numbers (reduces value)")
        reasons == AppendIf(factors.HasHyphens, r5, "Contains hyphens (reduces value)")
    IN  IF Len(reasons) = 0 THEN "Standard domain name"
        ELSE Join(reasons, "; ")

generateReasoning(factors) ==
    LET r1 == IF factors.Length <= 3 THEN <<"Very short domain (premium)">>
              ELSE IF factors.Length <= 5 THEN <<"Short and memorable">>
              ELSE IF factors.Length > 15 THEN <<"Long domain name">>
              ELSE <<>>
        r2 == AppendIf(factors.Brandable, r1, "Brandable name")
        r3 == AppendIf(factors.Pronounceable, r2, "Easy to pronounce")
        r4 == AppendIf(FLt(F2, factors.WordScore), r3, "Contains valuable keywords")
        r5 == AppendIf(factors.HasNumbers, r4, "Contains numbers (reduces value)")
        reasons == AppendIf(factors.HasHyphens, r5, "Contains hyphens (reduces value)")
    IN  IF Len(reasons) = 0 THEN "Standard domain name"
        ELSE Join(reasons, "; ")

\* the name and the suffix Evaluate scores
EvaluateName(dom) == SplitDot(dom)[1]

EvaluateTLD(dom) == <<".">> \o SplitDot(dom)[Len(SplitDot(dom))]

\* the Result Evaluate builds from the factors
EvaluateResult(factors, fused) ==
    [Factors |-> factors,
     EstimatedValue |-> FTrunc(calculateValue(factors, fused)),
     Currency |-> "USD",
     Confidence |-> determineConfidence(factors),
     Reasoning |-> generateReasoning(factors)]

InvalidFormatResult ==
    [EstimatedValue |-> 0, Currency |-> "USD", Confidence |-> "low",
     Factors |-> ZeroFactors, Reasoning |-> "Invalid domain format"]

Evaluate(e, dom, fused) ==
    IF Len(SplitDot(dom)) < 2 THEN InvalidFormatResult
    ELSE EvaluateResult(analyzeDomain(e, EvaluateName(dom), EvaluateTLD(dom)), fused)

\* variant: Evaluate enters the suffix it scored into the suffix table
EvaluateEngineCaches(e, dom) ==
    [e EXCEPT !.commonTLDs = (EvaluateTLD(dom) :> F1) @@ @]

\* variant: Evaluate remembers the name it scored as a premium word
EvaluateEngineLearns(e, dom) ==
    [e EXCEPT !.premiumWords = Append(@, ToLower(SplitDot(dom)[1]))]

\* Evaluate has a pointer receiver and assigns no field of the engine
EvaluateEngineAfter(e, dom) == e


(***************************************************************************)
(* Optional values (Go pointers and errors that may be nil) are <<>> for   *)
(* nil and <<v>> for a pointer to v.                                       *)
(***************************************************************************)
Nil == <<>>

Ptr(v) == <<v>>

Deref(p) == p[1]

(***************************************************************************)
(* package doma: the tokenization lookup, simulated from the domain text   *)
(***************************************************************************)
DomaPremiumDomains ==
    << <<"c","r","y","p","t","o">>,
       <<"d","e","f","i">>,
       <<"n","f","t">>,
       <<"w","e","b","3">>,
       <<"b","l","o","c","k","c","h","a","i","n">>,
       <<"e","t","h","e","r","e","u","m">>,
       <<"b","i","t","c","o","i","n">> >>

simulateTokenizationStatus(dom) ==
    LET domainPart == SplitDot(dom)[1]
    IN  IF GoLen(domainPart) <= 3 THEN TRUE
        ELSE IF \E i \in DOMAIN DomaPremiumDomains :
                    Contains(ToLower(domainPart), DomaPremiumDomains[i]) THEN TRUE
        ELSE IF GoLen(domainPart) >= 4 /\ GoLen(domainPart) <= 8
             THEN GoLen(domainPart) % 2 = 0
        ELSE FALSE

\* isTokenized returns (bool, error); the error is nil on every path
isTokenized(dom) ==
    IF \/ Contains(dom, <<".","c","o","m">>) \/ Contains(dom, <<".","n","e","t">>)
       \/ Contains(dom, <<".","o","r","g">>) \/ Contains(dom, <<".","i","o">>)
    THEN [tokenized |-> simulateTokenizationStatus(dom), err |-> Nil]
    ELSE IF Contains(dom, <<".","e","t","h">>) \/ Contains(dom, <<".","c","r","y","p","t","o">>)
    THEN [tokenized |-> simulateTokenizationStatus(dom), err |-> Nil]
    ELSE [tokenized |-> FALSE, err |-> Nil]

getTokenRights == [Total |-> 1000, Available |-> 750, Locked |-> 250]

DomaUntokenized(dom, t) ==
    [Domain |-> dom, IsTokenized |-> FALSE, TokenizationChain |-> "",
     DomaRecord |-> Nil, TokenRights |-> Nil, DeFiStatus |-> Nil,
     Error |-> IF t.err = Nil THEN "" ELSE Deref(t.err)]

DomaTokenized(dom) ==
    [Domain |-> dom, IsTokenized |-> TRUE, TokenizationChain |-> "ethereum",
     DomaRecord |-> Ptr([SyncStatus |-> "synced"]),
     TokenRights |-> Ptr(getTokenRights),
     DeFiStatus |-> Ptr([IsCollateral |-> TRUE, YieldGeneration |-> TRUE]),
     Error |-> ""]

\* doma.Client.CheckDomain: (*Result, error), the error always nil
DomaCheckDomain(dom) ==
    IF isTokenized(dom).err # Nil \/ ~isTokenized(dom).tokenized
    THEN [res |-> Ptr(DomaUntokenized(dom, isTokenized(dom))), err |-> Nil]
    ELSE [res |-> Ptr(DomaTokenized(dom)), err |-> Nil]

(***************************************************************************)
(* package blockchain: the simulated ENS / Unstoppable Domains lookups     *)
(***************************************************************************)
ENSTaken ==
    << <<"t","e","s","t",".","e","t","h">>,
       <<"e","x","a","m","p","l","e",".","e","t","h">>,
       <<"h","e","l","l","o",".","e","t","h">>,
       <<"w","o","r","l","d",".","e","t","h">> >>

UDTaken ==
    << <<"t","e","s","t",".","c","r","y","p","t","o">>,
       <<"e","x","a","m","p","l","e",".","n","f","t">>,
       <<"h","e","l","l","o",".","x">> >>

UDSuffixes ==
    << <<".","c","r","y","p","t","o">>,
       <<".","n","f","t">>,
       <<".","x">>,
       <<".","w","a","l","l","e","t">>,
       <<".","b","i","t","c","o","i","n">>,
       <<".","d","a","o">>,
       <<".","8","8","8">>,
       <<".","z","i","l">> >>

simulateENSLookup(dom) ==
    IF \E i \in DOMAIN ENSTaken : dom = ENSTaken[i] THEN FALSE
    ELSE GoLen(SplitDot(dom)[1]) > 3

simulateUDLookup(dom) ==
    IF \E i \in DOMAIN UDTaken : dom = UDTaken[i] THEN FALSE
    ELSE GoLen(SplitDot(dom)[1]) > 3

BlockchainEmptyResult ==
    [Available |-> FALSE, Type |-> "", Owner |-> "", Resolver |-> "",
     Records |-> {}, Error |-> ""]

checkENS(dom) ==
    IF simulateENSLookup(dom)
    THEN [BlockchainEmptyResult EXCEPT !.Type = "ENS", !.Available = TRUE]
    ELSE [BlockchainEmptyResult EXCEPT
            !.Type = "ENS",
            !.Owner = "0xaaaaaaaaaaaaaaaaaaaaaaaaaaaaaaaaaaaaaaaa",
            !.Resolver = "0xbbbbbbbbbbbbbbbbbbbbbbbbbbbbbbbbbbbbbbbb",
            !.Records = {"ETH", "BTC"}]

checkUnstoppableDomains(dom) ==
    IF simulateUDLookup(dom)
    THEN [BlockchainEmptyResult EXCEPT !.Type = "Unstoppable Domains",
                                       !.Available = TRUE]
    ELSE [BlockchainEmptyResult EXCEPT
            !.Type = "Unstoppable Domains",
            !.Owner = "0xeeeeeeeeeeeeeeeeeeeeeeeeeeeeeeeeeeeeeeee",
            !.Records = {"crypto.ETH.address", "crypto.BTC.address"}]

\* blockchain.Checker.Check: (*Result, error)
BlockchainCheck(dom) ==
    IF HasSuffix(dom, <<".","e","t","h">>)
    THEN [res |-> Ptr(checkENS(dom)), err |-> Nil]
    ELSE IF \E i \in DOMAIN UDSuffixes : HasSuffix(dom, UDSuffixes[i])
    THEN [res |-> Ptr(checkUnstoppableDomains(dom)), err |-> Nil]
    ELSE [res |-> Ptr(BlockchainEmptyResult),
          err |-> Ptr("unsupported blockchain domain type")]

(***************************************************************************)
(* package checker: the four DNS lookups.  answers gives, for each record  *)
(* type, what its lookup did: "records" (no error and at least one         *)
(* record), "empty" (no error, no record) or "error".                      *)
(***************************************************************************)
DNSRecordTypes == <<"A", "MX", "NS", "TXT">>

extractTLD(dom) ==
    IF Len(SplitDot(dom)) < 2 THEN <<>>
    ELSE <<".">> \o SplitDot(dom)[Len(SplitDot(dom))]

\* "if err == nil && len(records) > 0": an error and an empty answer are
\* not told apart
DNSFound(answers) == {t \in DOMAIN answers : answers[t] = "records"}

\* DNSChecker.Check: (*DNSResult, error), the error always nil
DNSCheck(dom, answers) ==
    [res |-> Ptr([TLD |-> extractTLD(dom),
                  HasRecords |-> DNSFound(answers) # {},
                  RecordTypes |-> SelectSeq(DNSRecordTypes,
                                            LAMBDA t : t \in DNSFound(answers)),
                  Available |-> DNSFound(answers) = {},
                  Error |-> ""]),
     err |-> Nil]

(***************************************************************************)
(* package whois.  The network's part of a lookup is a reply: an error     *)
(* from queryWhoisServer, or the lines the server sent.  A line is         *)
(* abstracted to what parseWhoisData reads from it: whether it carries a   *)
(* "no match" / "not found" / "no data found" marker, and its key: value.  *)
(***************************************************************************)
WhoisServerTLDs ==
    << <<".","c","o","m">>,
       <<".","n","e","t">>,
       <<".","o","r","g">>,
       <<".","i","n","f","o">>,
       <<".","b","i","z">>,
       <<".","n","a","m","e">>,
       <<".","i","o">>,
       <<".","c","o">>,
       <<".","m","e">>,
       <<".","t","v">>,
       <<".","c","c">>,
       <<".","w","s">> >>

getWhoisServer(dom) ==
    IF \E i \in DOMAIN WhoisServerTLDs : extractTLD(dom) = WhoisServerTLDs[i]
    THEN "whois" ELSE ""

WhoisEmptyResult ==
    [Available |-> FALSE, Registrar |-> "", Registered |-> FALSE,
     NameServers |-> <<>>, Status |-> <<>>, RawData |-> <<>>, Error |-> ""]

parseWhoisField(result, line) ==
    IF line.key = "registrar" THEN [result EXCEPT !.Registrar = line.value]
    ELSE IF line.key \in {"creation date", "created", "registration time"}
         THEN [result EXCEPT !.Registered = @ \/ line.dateOk]
    ELSE IF line.key = "name server"
         THEN [result EXCEPT !.NameServers = Append(@, line.value)]
    ELSE IF line.key \in {"status", "domain status"}
         THEN [result EXCEPT !.Status = Append(@, line.value)]
    ELSE result

RECURSIVE parseWhoisData(_, _)
parseWhoisData(lines, result) ==
    IF lines = <<>>
    THEN IF result.Registrar # "" \/ result.Registered
         THEN [result EXCEPT !.Available = FALSE]
         ELSE result
    ELSE IF Head(lines).blank THEN parseWhoisData(Tail(lines), result)
    ELSE IF Head(lines).noMatch THEN [result EXCEPT !.Available = TRUE]
    ELSE parseWhoisData(Tail(lines), parseWhoisField(result, Head(lines)))

\* whois.Client.Lookup: (*Result, error), the error always nil
WhoisLookup(dom, reply) ==
    IF getWhoisServer(dom) = ""
    THEN [res |-> Ptr([WhoisEmptyResult EXCEPT
                         !.Error = "No WHOIS server found for domain"]),
          err |-> Nil]
    ELSE IF reply.err # ""
    THEN [res |-> Ptr([WhoisEmptyResult EXCEPT !.Error = reply.err]), err |-> Nil]
    ELSE [res |-> Ptr(parseWhoisData(reply.lines,
                        [WhoisEmptyResult EXCEPT !.RawData = reply.lines])),
          err |-> Nil]

(***************************************************************************)
(* package analyzer                                                        *)
(***************************************************************************)
BlockchainTLDs ==
    << <<".","e","t","h">>,
       <<".","c","r","y","p","t","o">>,
       <<".","n","f","t">>,
       <<".","x">>,
       <<".","w","a","l","l","e","t">>,
       <<".","b","i","t","c","o","i","n">>,
       <<".","d","a","o">>,
       <<".","8","8","8">>,
       <<".","z","i","l">>,
       <<".","b","l","o","c","k","c","h","a","i","n">> >>

isBlockchainDomain(dom) ==
    \E i \in DOMAIN BlockchainTLDs : HasSuffix(dom, BlockchainTLDs[i])

\* "x, err := call(); if err == nil { result.Field = x }"
KeepIfNoError(call) == IF call.err = Nil THEN call.res ELSE Nil

AnalyzeResult(dom, domaData, chainData, dnsData, whoisData, valuationData) ==
    [Domain |-> dom, DomaData |-> domaData, BlockchainData |-> chainData,
     DNSAvailability |-> dnsData, WhoisData |-> whoisData,
     ValuationData |-> valuationData]

\* variant: the valuation is skipped when the WHOIS lookup reports an error
AnalyzeDomainNeedsWhois(e, dom, fused, answers, reply) ==
    IF dom = <<>>
    THEN [res |-> Nil, err |-> Ptr("domain cannot be empty")]
    ELSE IF isBlockchainDomain(dom)
    THEN [res |-> Ptr(AnalyzeResult(dom, KeepIfNoError(DomaCheckDomain(dom)),
                                    KeepIfNoError(BlockchainCheck(dom)), Nil, Nil,
                                    Ptr(Evaluate(e, dom, fused)))),
          err |-> Nil]
    ELSE [res |-> Ptr(AnalyzeResult(dom, KeepIfNoError(DomaCheckDomain(dom)), Nil,
                                    KeepIfNoError(DNSCheck(dom, answers)),
                                    KeepIfNoError(WhoisLookup(dom, reply)),
                                    IF Deref(WhoisLookup(dom, reply).res).Error # ""
                                    THEN Nil ELSE Ptr(Evaluate(e, dom, fused)))),
          err |-> Nil]

\* variant: the DNS check is made for blockchain domains as well
AnalyzeDomainAlwaysDNS(e, dom, fused, answers, reply) ==
    IF dom = <<>>
    THEN [res |-> Nil, err |-> Ptr("domain cannot be empty")]
    ELSE IF isBlockchainDomain(dom)
    THEN [res |-> Ptr(AnalyzeResult(dom, KeepIfNoError(DomaCheckDomain(dom)),
                                    KeepIfNoError(BlockchainCheck(dom)),
                                    KeepIfNoError(DNSCheck(dom, answers)), Nil,
                                    Ptr(Evaluate(e, dom, fused)))),
          err |-> Nil]
    ELSE [res |-> Ptr(AnalyzeResult(dom, KeepIfNoError(DomaCheckDomain(dom)), Nil,
                                    KeepIfNoError(DNSCheck(dom, answers)),
                                    KeepIfNoError(WhoisLookup(dom, reply)),
                                    Ptr(Evaluate(e, dom, fused)))),
          err |-> Nil]

\* Analyzer.AnalyzeDomain: (*Result, error).  answers and reply are what the
\* network answers to the DNS and WHOIS lookups, if they are made.
AnalyzeDomain(e, dom, fused, answers, reply) ==
    IF dom = <<>>
    THEN [res |-> Nil, err |-> Ptr("domain cannot be empty")]
    ELSE IF isBlockchainDomain(dom)
    THEN [res |-> Ptr(AnalyzeResult(dom, KeepIfNoError(DomaCheckDomain(dom)),
                                    KeepIfNoError(BlockchainCheck(dom)), Nil, Nil,
                                    Ptr(Evaluate(e, dom, fused)))),
          err |-> Nil]
    ELSE [res |-> Ptr(AnalyzeResult(dom, KeepIfNoError(DomaCheckDomain(dom)), Nil,
                                    KeepIfNoError(DNSCheck(dom, answers)),
                                    KeepIfNoError(WhoisLookup(dom, reply)),
                                    Ptr(Evaluate(e, dom, fused)))),
          err |-> Nil]

(***************************************************************************)
(* package output and package main                                         *)
(***************************************************************************)
\* unicode.IsSpace
IsSpace(r) == r \in OneByteSpaces \cup TwoByteSpaces \cup ThreeByteSpaces

\* strings.TrimSpace
TrimSpace(s) ==
    IF \A i \in DOMAIN s : IsSpace(s[i]) THEN <<>>
    ELSE SubSeq(s,
                CHOOSE i \in DOMAIN s :
                    ~IsSpace(s[i]) /\ \A j \in 1..(i - 1) : IsSpace(s[j]),
                CHOOSE i \in DOMAIN s :
                    ~IsSpace(s[i]) /\ \A j \in (i + 1)..Len(s) : IsSpace(s[j]))

\* Formatter.Display: the error returned, nil when the report was written.
\* writeOk says whether standard output took the report.
FormatterDisplay(format, writeOk) ==
    IF format \in {"json", "table"}
    THEN IF writeOk THEN Nil ELSE Ptr("write error")
    ELSE Ptr("unsupported format")

\* what a run of main leaves behind: the exit status, whether showUsage
\* ran, the message on standard error, the analysis made, whether the report
\* was displayed
MainOutcome(exit, usage, stderr, made, displayed) ==
    [exit |-> exit, usage |-> usage, stderr |-> stderr, analysis |-> made,
     displayed |-> displayed]

\* main after AnalyzeDomain returned a
MainReport(format, a, writeOk) ==
    IF a.err # Nil
    THEN MainOutcome(1, FALSE, "Error analyzing domain", Ptr(a), FALSE)
    ELSE IF FormatterDisplay(format, writeOk) # Nil
    THEN MainOutcome(1, FALSE, "Error displaying results", Ptr(a), FALSE)
    ELSE MainOutcome(0, FALSE, "", Ptr(a), TRUE)

\* main: fl holds the parsed flags
Main(e, fl, fused, answers, reply, writeOk) ==
    IF fl.help \/ fl.domain = <<>>
    THEN MainOutcome(0, TRUE, "", Nil, FALSE)
    ELSE IF TrimSpace(ToLower(fl.domain)) = <<>>
    THEN MainOutcome(1, FALSE, "Error: Domain cannot be empty", Nil, FALSE)
    ELSE MainReport(fl.format,
                    AnalyzeDomain(e, TrimSpace(ToLower(fl.domain)), fused,
                                  answers, reply),
                    writeOk)

(***************************************************************************)
(* The state                                                               *)
(***************************************************************************)
VARIABLES
    fusedBuild,   \* the build contracts multiply-add (fixed per binary)
    engine,       \* the *Engine the calls share
    domain,       \* the string under evaluation or analysis
    calls,        \* Evaluate calls made so far
    vresult,      \* what the last Evaluate call returned
    vprev,        \* what the Evaluate call before it returned
    lengthArg,    \* calculateLengthScore: the two lengths compared
    lengthOut,    \* calculateLengthScore: their scores
    factorsArg,   \* calculateValue: the factor set passed
    valueOut,     \* calculateValue: the value returned and its int()
    net,          \* AnalyzeDomain: where it stands, its calls, the network's answers
    analysis,     \* AnalyzeDomain: the (*Result, error) returned
    flags,        \* main: the values of the -domain, -format and -help flags
    cli,          \* main: what the process did (exit status, output)
    procs         \* the goroutines running Evaluate on the shared engine

evalVars == <<calls, vresult, vprev>>

pureVars == <<lengthArg, lengthOut, factorsArg, valueOut>>

analyzeVars == <<net, analysis>>

cliVars == <<flags, cli>>

goVars == <<procs>>

vars == <<fusedBuild, engine, domain, evalVars, pureVars, analyzeVars, cliVars,
         goVars>>

(***************************************************************************)
(* Inputs                                                                  *)
(***************************************************************************)
MaxLen == 4

MaxCalls == 2

ShortAlphabet == {"a", "B", "1", "-", "."}

ShortStrings == UNION {[1..k -> ShortAlphabet] : k \in 0..MaxLen}

SampleNames ==
    { <<"a","p","p">>,
      <<"A","p","p">>,
      <<"a","i">>,
      <<"x">>,
      <<"s","h","o","p">>,
      <<"c","l","o","u","d">>,
      <<"m","y","n","a","m","e">>,
      <<"w","e","b","h","u","b">>,
      <<"t","e","s","t","1","2","3">>,
      <<"n","e","w","s","h","o","p">>,
      <<"s","e","c","u","r","i","t","y">>,
      <<"c","r","y","p","t","o","b","a","n","k">>,
      <<"t","e","s","t","-","d","o","m","a","i","n">>,
      <<"a","c","c","o","m","p","l","i","s","h","e","d">>,
      <<"a","c","c","o","m","m","o","d","a","t","i","o","n">>,
      <<"v","e","r","y","l","o","n","g","d","o","m","a","i","n","s">>,
      <<"v","e","r","y","l","o","n","g","d","o","m","a","i","n","s","x">>,
      <<"v","e","r","y","l","o","n","g","d","o","m","a","i","n","n","a","m","e","t","h","a","t","i","s","h","a","r","d">>,
      <<"b","c","d","f","g">>,
      <<"w","e","b","U+00E9","b">>,
      <<"a","1","-","B">>,
      <<"a","p","p","a","p","p">>,
      <<"b","r","a","n","d">>,
      <<"a","u","d","i","o">>,
      <<"s","t","r","a","n","d","s">>,
      <<"h","o","m","e">>,
      <<"b","c","d","f","g","h","j">> }

SampleTLDs ==
    { <<"c","o","m">>,
      <<"i","o">>,
      <<"n","e","t">>,
      <<"e","t","h">>,
      <<"t","e","c","h">>,
      <<"x","y","z">>,
      <<"C","O","M">>,
      <<>> }

ExtraDomains ==
    { <<"l","o","c","a","l","h","o","s","t">>,
      <<>>,
      <<"a","p","p">>,
      <<"a",".","b",".","c","o","m">>,
      <<"w","w","w",".","a","p","p",".","c","o","m">>,
      <<"a","p","p",".","c","o",".","u","k">>,
      <<"w","e","b","h","u","b",".","a",".","b",".","i","o">> }

SampleDomains ==
    {n \o <<".">> \o t : n \in SampleNames, t \in SampleTLDs} \cup ExtraDomains

Domains == ShortStrings \cup SampleDomains


(***************************************************************************)
(* Specification Spec: Evaluate called on one engine                       *)
(***************************************************************************)
EvalIdle == calls = 0 /\ vresult = Nil /\ vprev = Nil

PureIdle == lengthArg = Nil /\ lengthOut = Nil /\ factorsArg = Nil /\ valueOut = Nil

AnalyzeIdle == net = Nil /\ analysis = Nil

CliIdle == flags = Nil /\ cli = Nil

GoIdle == procs = <<>>

Init ==
    /\ fusedBuild \in BOOLEAN
    /\ engine = NewEngine
    /\ domain \in Domains
    /\ EvalIdle
    /\ PureIdle
    /\ AnalyzeIdle
    /\ CliIdle
    /\ GoIdle

EvaluateCall ==
    /\ calls < MaxCalls
    /\ calls' = calls + 1
    /\ vprev' = vresult
    /\ vresult' = Ptr(Evaluate(engine, domain, fusedBuild))
    /\ engine' = EvaluateEngineAfter(engine, domain)
    /\ UNCHANGED <<fusedBuild, domain, pureVars, analyzeVars, cliVars, goVars>>

NewEngineCall ==
    /\ engine' = NewEngine
    /\ UNCHANGED <<fusedBuild, domain, evalVars, pureVars, analyzeVars, cliVars, goVars>>

Next == EvaluateCall \/ NewEngineCall

Spec == Init /\ [][Next]_vars

(***************************************************************************)
(* Specification SpecLength: calculateLengthScore on two lengths           *)
(***************************************************************************)
MaxLength == 20

InitLength ==
    /\ fusedBuild = FALSE
    /\ engine = NewEngine
    /\ domain = <<>>
    /\ EvalIdle
    /\ lengthArg \in {Ptr(<<m, n>>) : m \in 0..MaxLength, n \in 0..MaxLength}
    /\ lengthOut = Nil
    /\ factorsArg = Nil
    /\ valueOut = Nil
    /\ AnalyzeIdle
    /\ CliIdle
    /\ GoIdle

LengthCall ==
    /\ lengthOut = Nil
    /\ lengthOut' = Ptr(<<calculateLengthScore(Deref(lengthArg)[1]),
                          calculateLengthScore(Deref(lengthArg)[2])>>)
    /\ UNCHANGED <<fusedBuild, engine, domain, evalVars, lengthArg,
                   factorsArg, valueOut, analyzeVars, cliVars, goVars>>

NextLength == LengthCall

SpecLength == InitLength /\ [][NextLength]_vars

(***************************************************************************)
(* Specification SpecValue: calculateValue, and the int() Evaluate applies *)
(* to it, on a factor set                                                  *)
(***************************************************************************)
MaxWordScore == 5

FactorLengths == {3, 6, 12, 16}

FactorCharacterScores == {F0, FLit(15, 10), FLit(45, 10), F6}

FactorTLDScores == {F0, F1, FMul(FLit(7, 10), F5), FMul(FLit(8, 10), F5), F5}

FactorSets ==
    {f \in [Length : FactorLengths,
            LengthScore : {F10, F6, F2, F1},
            CharacterScore : FactorCharacterScores,
            WordScore : {FFromInt(w) : w \in 0..MaxWordScore},
            TLDScore : FactorTLDScores,
            Pronounceable : BOOLEAN, Brandable : BOOLEAN,
            HasNumbers : BOOLEAN, HasHyphens : BOOLEAN] :
        /\ f.LengthScore = calculateLengthScore(f.Length)
        /\ f.Brandable => /\ f.Length >= 3 /\ f.Length <= 12
                          /\ f.Pronounceable
                          /\ ~f.HasNumbers /\ ~f.HasHyphens}

InitValue ==
    /\ fusedBuild \in BOOLEAN
    /\ engine = NewEngine
    /\ domain = <<>>
    /\ EvalIdle
    /\ lengthArg = Nil
    /\ lengthOut = Nil
    /\ factorsArg \in {Ptr(f) : f \in FactorSets}
    /\ valueOut = Nil
    /\ AnalyzeIdle
    /\ CliIdle
    /\ GoIdle

ValueOf(value) == [value |-> value, EstimatedValue |-> FTrunc(value)]

ValueCall ==
    /\ valueOut = Nil
    /\ valueOut' = Ptr(ValueOf(calculateValue(Deref(factorsArg), fusedBuild)))
    /\ UNCHANGED <<fusedBuild, engine, domain, evalVars, lengthArg, lengthOut,
                   factorsArg, analyzeVars, cliVars, goVars>>

NextValue == ValueCall

SpecValue == InitValue /\ [][NextValue]_vars

(***************************************************************************)
(* Specification SpecAnalyze: one AnalyzeDomain call, step by step from   *)
(* one wait for the network to the next, the network free to answer the   *)
(* DNS and WHOIS lookups in any way                                        *)
(***************************************************************************)
AnalyzeNames ==
    { <<"a","p","p">>,
      <<"t","e","s","t">>,
      <<"h","e","l","l","o">>,
      <<"e","x","a","m","p","l","e">>,
      <<"m","y","c","r","y","p","t","o","s","h","o","p">> }

AnalyzeTLDs ==
    { <<"c","o","m">>,
      <<"i","o">>,
      <<"x","y","z">>,
      <<"e","t","h">>,
      <<"c","r","y","p","t","o">>,
      <<"x">>,
      <<"b","l","o","c","k","c","h","a","i","n">> }

AnalyzeDomains ==
    {n \o <<".">> \o t : n \in AnalyzeNames, t \in AnalyzeTLDs}
        \cup { <<>>, <<"l","o","c","a","l","h","o","s","t">>,
               <<"a",".","b",".","c","o","m">> }

WhoisLine(noMatch, key, value, dateOk) ==
    [blank |-> FALSE, noMatch |-> noMatch, key |-> key, value |-> value,
     dateOk |-> dateOk]

WhoisBlankLine ==
    [blank |-> TRUE, noMatch |-> FALSE, key |-> "", value |-> "", dateOk |-> FALSE]

WhoisTexts ==
    { <<>>,
      <<WhoisBlankLine, WhoisLine(TRUE, "", "", FALSE)>>,
      <<WhoisLine(FALSE, "registrar", "Example Registrar", FALSE),
        WhoisLine(FALSE, "creation date", "2020-01-02", TRUE),
        WhoisLine(FALSE, "name server", "ns1.example.com", FALSE),
        WhoisLine(FALSE, "status", "ok", FALSE)>>,
      <<WhoisLine(FALSE, "created", "yesterday", FALSE)>>,
      <<WhoisLine(FALSE, "", "", FALSE)>> }

\* every set of record types found, the other lookups all empty or all failed
DNSAnswers ==
    {[t \in {"A", "MX", "NS", "TXT"} |-> IF t \in found THEN "records" ELSE rest] :
        found \in SUBSET {"A", "MX", "NS", "TXT"}, rest \in {"empty", "error"}}

\* the DNS and WHOIS lookups are made for a non-empty, non-blockchain domain
LookupsMade(dom) == dom # <<>> /\ ~isBlockchainDomain(dom)

NoAnswers == [t \in {"A", "MX", "NS", "TXT"} |-> "empty"]

NoReply == [err |-> "", lines |-> <<>>]

InitAnalyze ==
    /\ fusedBuild \in BOOLEAN
    /\ engine = NewEngine
    /\ domain \in AnalyzeDomains
    /\ EvalIdle
    /\ PureIdle
    /\ AnalyzeIdle
    /\ CliIdle
    /\ GoIdle

\* AnalyzeDomain past its DOMA check, which waits for nothing: a blockchain
\* domain has had its (simulated) blockchain check as well and goes on to
\* the valuation, any other domain is in dnsChecker.Check before its first
\* lookup.  pc is where the call stands, calls the collaborators called so
\* far, answers and reply what the network has answered so far.
AnalyzeDomainEnter(dom) ==
    IF isBlockchainDomain(dom)
    THEN [pc |-> "valuation", answers |-> <<>>, reply |-> NoReply,
          calls |-> <<"doma", "blockchain">>]
    ELSE [pc |-> "dns", answers |-> <<>>, reply |-> NoReply,
          calls |-> <<"doma", "dns">>]

\* the AnalyzeDomain call in progress stands at pc
AnalyzeAt(pc) == net # Nil /\ Deref(net).pc = pc

\* AnalyzeDomain is called: the empty domain returns the error at once
AnalyzeDomainBegin ==
    /\ net = Nil
    /\ analysis = Nil
    /\ IF domain = <<>>
       THEN /\ net' = Ptr([pc |-> "done", answers |-> <<>>, reply |-> NoReply,
                           calls |-> <<>>])
            /\ analysis' = Ptr(AnalyzeDomain(engine, domain, fusedBuild,
                                             NoAnswers, NoReply))
       ELSE /\ net' = Ptr(AnalyzeDomainEnter(domain))
            /\ UNCHANGED analysis
    /\ UNCHANGED <<fusedBuild, engine, domain, evalVars, pureVars, cliVars, goVars>>

\* the record type of the next lookup of DNSChecker.Check
DNSNextType(n) == DNSRecordTypes[Cardinality(DOMAIN n.answers) + 1]

\* the call after the resolver answered a to the lookup of type t: after the
\* last lookup whoisClient.Lookup is called, which connects only when it
\* knows a server for the domain
DNSAnswered(n, t, a, dom) ==
    [n EXCEPT !.answers = (t :> a) @@ @,
              !.calls = IF t = "TXT" THEN Append(@, "whois") ELSE @,
              !.pc = IF t # "TXT" THEN "dns"
                     ELSE IF getWhoisServer(dom) = "" THEN "valuation"
                     ELSE "dial"]

\* DNSChecker.Check waits for the resolver: LookupHost, LookupMX, LookupNS,
\* LookupTXT, one after the other
DNSCheckLookup(answerSet) ==
    /\ AnalyzeAt("dns")
    /\ \E a \in answerSet :
          /\ \A t \in DOMAIN Deref(net).answers : a[t] = Deref(net).answers[t]
          /\ net' = Ptr(DNSAnswered(Deref(net), DNSNextType(Deref(net)),
                                    a[DNSNextType(Deref(net))], domain))
    /\ UNCHANGED <<fusedBuild, engine, domain, evalVars, pureVars, analysis,
                   cliVars, goVars>>

\* queryWhoisServer failed with err: Lookup returns, the valuation follows
WhoisFailed(n, err) ==
    [n EXCEPT !.pc = "valuation", !.reply = [err |-> err, lines |-> <<>>]]

\* queryWhoisServer waits for net.DialTimeout
queryWhoisServerDial ==
    /\ AnalyzeAt("dial")
    /\ \E ok \in BOOLEAN :
          net' = Ptr(IF ok THEN [Deref(net) EXCEPT !.pc = "write"]
                     ELSE WhoisFailed(Deref(net), "failed to connect to WHOIS server"))
    /\ UNCHANGED <<fusedBuild, engine, domain, evalVars, pureVars, analysis,
                   cliVars, goVars>>

\* queryWhoisServer waits for conn.Write
queryWhoisServerWrite ==
    /\ AnalyzeAt("write")
    /\ \E ok \in BOOLEAN :
          net' = Ptr(IF ok THEN [Deref(net) EXCEPT !.pc = "read"]
                     ELSE WhoisFailed(Deref(net), "failed to send query"))
    /\ UNCHANGED <<fusedBuild, engine, domain, evalVars, pureVars, analysis,
                   cliVars, goVars>>

\* what scanner.Scan can do next when the server sends one of texts: read
\* one more line, reach the end of the text, or fail
WhoisScanNext(n, texts) ==
    {[n EXCEPT !.reply.lines = Append(@, t[Len(@) + 1])] :
        t \in {u \in texts : /\ Len(u) > Len(n.reply.lines)
                             /\ SubSeq(u, 1, Len(n.reply.lines)) = n.reply.lines}}
    \cup {[n EXCEPT !.pc = "valuation"] : t \in {u \in texts : u = n.reply.lines}}
    \cup {WhoisFailed(n, "failed to read response")}

\* queryWhoisServer waits for scanner.Scan, line by line
queryWhoisServerScan(texts) ==
    /\ AnalyzeAt("read")
    /\ \E n \in WhoisScanNext(Deref(net), texts) : net' = Ptr(n)
    /\ UNCHANGED <<fusedBuild, engine, domain, evalVars, pureVars, analysis,
                   cliVars, goVars>>

\* the lookups are over: the valuation runs and AnalyzeDomain returns
AnalyzeDomainReturn ==
    /\ AnalyzeAt("valuation")
    /\ analysis' = Ptr(AnalyzeDomain(engine, domain, fusedBuild,
                                     Deref(net).answers, Deref(net).reply))
    /\ net' = Ptr([Deref(net) EXCEPT !.pc = "done", !.calls = Append(@, "valuation")])
    /\ UNCHANGED <<fusedBuild, engine, domain, evalVars, pureVars, cliVars, goVars>>

NextAnalyze ==
    \/ AnalyzeDomainBegin
    \/ DNSCheckLookup(DNSAnswers)
    \/ queryWhoisServerDial
    \/ queryWhoisServerWrite
    \/ queryWhoisServerScan(WhoisTexts)
    \/ AnalyzeDomainReturn

SpecAnalyze == InitAnalyze /\ [][NextAnalyze]_vars

(***************************************************************************)
(* Specification SpecMain: one run of the command                          *)
(***************************************************************************)
MainDomains ==
    { <<>>,
      <<" ">>,
      <<"A","p","p",".","C","O","M">>,
      <<" ","a","p","p",".","i","o"," ">>,
      <<"\t">>,
      <<" ","\t","\n">>,
      <<"\t","a","p","p",".","c","o","m">>,
      <<"a","p","p",".","c","o","m","\r","\n">>,
      <<"U+00A0","a","p","p",".","i","o","U+3000">>,
      <<"m","y"," ","a","p","p",".","c","o","m">>,
      <<"a","p","p",".","e","t","h">>,
      <<"a","p","p",".","b","l","o","c","k","c","h","a","i","n">>,
      <<"l","o","c","a","l","h","o","s","t">> }

MainFormats == {"table", "json", "xml"}

MainAnswers ==
    {a \in DNSAnswers :
        \/ \A t \in DOMAIN a : a[t] = "empty"
        \/ \A t \in DOMAIN a : a[t] = "error"
        \/ \A t \in DOMAIN a : a[t] = "records"}

\* the WHOIS server sends nothing
MainTexts == {<<>>}

InitMain ==
    /\ fusedBuild \in BOOLEAN
    /\ engine = NewEngine
    /\ domain = <<>>
    /\ EvalIdle
    /\ PureIdle
    /\ AnalyzeIdle
    /\ flags \in {Ptr([domain |-> d, format |-> f, help |-> h]) :
                    d \in MainDomains, f \in MainFormats, h \in BOOLEAN}
    /\ cli = Nil
    /\ GoIdle

\* the process ends with outcome out
MainExit(out) ==
    cli' = Ptr([exit |-> out.exit, usage |-> out.usage, stderr |-> out.stderr,
                displayed |-> out.displayed])

\* main up to its first wait: the flag tests end the run, or AnalyzeDomain
\* is called with cleanDomain
MainBegin ==
    /\ cli = Nil
    /\ net = Nil
    /\ IF \/ Deref(flags).help
          \/ Deref(flags).domain = <<>>
          \/ TrimSpace(ToLower(Deref(flags).domain)) = <<>>
       THEN /\ MainExit(Main(engine, Deref(flags), fusedBuild, NoAnswers, NoReply,
                             TRUE))
            /\ UNCHANGED <<domain, net>>
       ELSE /\ domain' = TrimSpace(ToLower(Deref(flags).domain))
            /\ net' = Ptr(AnalyzeDomainEnter(TrimSpace(ToLower(Deref(flags).domain))))
            /\ UNCHANGED cli
    /\ UNCHANGED <<fusedBuild, engine, evalVars, pureVars, analysis, flags, goVars>>

\* main after AnalyzeDomain returned: Display writes the report to standard
\* output, and the process ends
MainDisplay ==
    /\ cli = Nil
    /\ analysis # Nil
    /\ \E writeOk \in BOOLEAN :
          MainExit(MainReport(Deref(flags).format, Deref(analysis), writeOk))
    /\ UNCHANGED <<fusedBuild, engine, domain, evalVars, pureVars, analyzeVars,
                   flags, goVars>>

NextMain ==
    \/ MainBegin
    \/ DNSCheckLookup(MainAnswers)
    \/ queryWhoisServerDial
    \/ queryWhoisServerWrite
    \/ queryWhoisServerScan(MainTexts)
    \/ AnalyzeDomainReturn
    \/ MainDisplay

SpecMain == InitMain /\ [][NextMain]_vars


(***************************************************************************)
(* Specification SpecConcurrent: goroutines that call Evaluate on the one  *)
(* engine they share.  A call is split at its reads of the engine: the     *)
(* loop over e.premiumWords in calculateWordScore, then the lookup in      *)
(* e.commonTLDs in calculateTLDScore; everything else works on the call's  *)
(* own arguments and locals.                                               *)
(***************************************************************************)
NumGoroutines == 2

Goroutines == 1..NumGoroutines

ConcurrentDomains ==
    { <<"a","p","p",".","c","o","m">>,
      <<"c","r","y","p","t","o","b","a","n","k",".","i","o">>,
      <<"a","1","-","B",".","x","y","z">>,
      <<"l","o","c","a","l","h","o","s","t">> }

\* a goroutine about to call e.Evaluate(dom)
GoStart(dom) ==
    [pc |-> "call", dom |-> dom, wordScore |-> Nil, result |-> Nil, overlap |-> {}]

\* the goroutines inside a call of Evaluate
GoRunning == {g \in DOMAIN procs : procs[g].pc \in {"words", "tlds"}}

\* a goroutine's call returns r: the others that were inside a call then
GoReturn(g, r) ==
    [procs[g] EXCEPT !.pc = "done", !.result = Ptr(r), !.overlap = GoRunning \ {g}]

InitConcurrent ==
    /\ fusedBuild \in BOOLEAN
    /\ engine = NewEngine
    /\ domain = <<>>
    /\ EvalIdle
    /\ PureIdle
    /\ AnalyzeIdle
    /\ CliIdle
    /\ procs \in [Goroutines -> {GoStart(d) : d \in ConcurrentDomains}]

\* Evaluate up to analyzeDomain: the split and the format check
GoCall(g) ==
    /\ procs[g].pc = "call"
    /\ IF Len(SplitDot(procs[g].dom)) < 2
       THEN /\ procs' = [procs EXCEPT ![g] = GoReturn(g, InvalidFormatResult)]
            /\ engine' = EvaluateEngineAfter(engine, procs[g].dom)
       ELSE /\ procs' = [procs EXCEPT ![g].pc = "words"]
            /\ UNCHANGED engine
    /\ UNCHANGED <<fusedBuild, domain, evalVars, pureVars, analyzeVars, cliVars>>

\* analyzeDomain up to and with calculateWordScore, which reads e.premiumWords
GoReadWords(g) ==
    /\ procs[g].pc = "words"
    /\ procs' = [procs EXCEPT
                    ![g].pc = "tlds",
                    ![g].wordScore =
                        Ptr(calculateWordScore(engine, EvaluateName(procs[g].dom)))]
    /\ UNCHANGED <<fusedBuild, engine, domain, evalVars, pureVars, analyzeVars,
                   cliVars>>

\* the factors of a call that read the word score earlier and reads the
\* suffix table now
GoFactors(e, dom, wordScore) ==
    [analyzeDomain(e, EvaluateName(dom), EvaluateTLD(dom)) EXCEPT
        !.WordScore = wordScore]

\* calculateTLDScore, which reads e.commonTLDs, and the rest of Evaluate
GoReadTLDs(g) ==
    /\ procs[g].pc = "tlds"
    /\ procs' = [procs EXCEPT ![g] =
                    GoReturn(g, EvaluateResult(
                                    GoFactors(engine, procs[g].dom,
                                              Deref(procs[g].wordScore)),
                                    fusedBuild))]
    /\ engine' = EvaluateEngineAfter(engine, procs[g].dom)
    /\ UNCHANGED <<fusedBuild, domain, evalVars, pureVars, analyzeVars, cliVars>>

NextConcurrent ==
    \E g \in Goroutines : GoCall(g) \/ GoReadWords(g) \/ GoReadTLDs(g)

SpecConcurrent == InitConcurrent /\ [][NextConcurrent]_vars
(***************************************************************************)
(* Properties of Evaluate (specification Spec)                             *)
(***************************************************************************)
HasDot(dom) == \E i \in DOMAIN dom : dom[i] = "."

Evaluated == calls > 0 /\ vresult # Nil

\* C1: for every input string, those without a '.' included, the
\* EstimatedValue Evaluate returns is at least 10 and at most 1,000,000.
C1_EstimateWithinFloorAndCap ==
    vresult # Nil =>
        /\ Deref(vresult).EstimatedValue >= 10
        /\ Deref(vresult).EstimatedValue <= 1000000

\* C2: Evaluate is total: for every string (empty, dot-less, several dots,
\* leading or trailing dot) it returns a result, whose Currency is "USD" and
\* whose Confidence is one of "low", "medium", "high".
C2_EvaluateTotal ==
    calls > 0 =>
        /\ vresult # Nil
        /\ Deref(vresult).Currency = "USD"
        /\ Deref(vresult).Confidence \in {"low", "medium", "high"}

\* several dots, one of them trailing, and a name that is not scored "low"
C2_Witness ==
    /\ Evaluated
    /\ Len(domain) > 0
    /\ domain[Len(domain)] = "."
    /\ Cardinality({i \in DOMAIN domain : domain[i] = "."}) >= 2
    /\ Deref(vresult).Confidence # "low"

\* C3: when the input has no '.', the result's factors have length 0, its
\* Confidence is "low" and its EstimatedValue is the floor, 10.
C3_NoDotGetsFloor ==
    (Evaluated /\ ~HasDot(domain)) =>
        /\ Deref(vresult).Factors.Length = 0
        /\ Deref(vresult).Confidence = "low"
        /\ Deref(vresult).EstimatedValue = 10

LastDot(dom) ==
    CHOOSE i \in DOMAIN dom :
        dom[i] = "." /\ \A j \in DOMAIN dom : j > i => dom[j] # "."

C4_Name(dom) == SubSeq(dom, 1, LastDot(dom) - 1)

C4_Suffix(dom) == <<".">> \o ToLower(SubSeq(dom, LastDot(dom) + 1, Len(dom)))

\* C4: for an input with at least one '.' (lower-cased by the caller, as the
\* engine's callers do), the factors are those of the name that is everything
\* before the final label and of the suffix that is "." followed by the final
\* label lower-cased (for "a.b.com": the name is "a.b", not "a").
C4_SplitsAtLastDot ==
    (Evaluated /\ HasDot(domain) /\ domain = ToLower(domain)) =>
        Deref(vresult).Factors =
            analyzeDomain(engine, C4_Name(domain), C4_Suffix(domain))

\* C5: Evaluate is deterministic: a second call with the same input, on the
\* same engine or on a fresh one, returns a result equal to the first in every
\* field, the reasoning string included.
C5_Deterministic == vprev # Nil => vresult = vprev

\* two calls made on a dotted domain whose name holds a premium keyword
C5_Witness ==
    /\ calls >= 2
    /\ vprev # Nil
    /\ HasDot(domain)
    /\ FLt(F2, Deref(vresult).Factors.WordScore)

\* C6: in every result, Brandable holds exactly when the name's length is
\* between 3 and 12, it has no digit and no '-', and it is pronounceable.
C6_BrandableIff ==
    Evaluated =>
        (Deref(vresult).Factors.Brandable <=>
            /\ Deref(vresult).Factors.Length >= 3
            /\ Deref(vresult).Factors.Length <= 12
            /\ ~Deref(vresult).Factors.HasNumbers
            /\ ~Deref(vresult).Factors.HasHyphens
            /\ Deref(vresult).Factors.Pronounceable)

\* a pronounceable, clean name one character too long to be brandable
C6_Witness ==
    /\ Evaluated
    /\ Deref(vresult).Factors.Length = 13
    /\ Deref(vresult).Factors.Pronounceable
    /\ ~Deref(vresult).Factors.HasNumbers
    /\ ~Deref(vresult).Factors.HasHyphens
    /\ ~Deref(vresult).Factors.Brandable

C8_Points(f) ==
      (IF f.Length <= 5 THEN 2 ELSE 0)
    + (IF f.Brandable THEN 2 ELSE 0)
    + (IF f.Pronounceable THEN 1 ELSE 0)
    + (IF FLe(F4, f.TLDScore) THEN 2 ELSE 0)
    + (IF ~(f.HasNumbers \/ f.HasHyphens) THEN 1 ELSE 0)

C8_Tier(points) ==
    IF points >= 6 THEN "high"
    ELSE IF points \in 3..5 THEN "medium"
    ELSE "low"

\* C8: the Confidence of a scored domain follows the points of its factors:
\* +2 length <= 5, +2 brandable, +1 pronounceable, +2 suffix score >= 4.0,
\* +1 neither digits nor hyphens; the total is in 0..8; "high" from 6,
\* "medium" for 3..5, "low" up to 2.
C8_ConfidenceFollowsPoints ==
    (Evaluated /\ HasDot(domain)) =>
        /\ C8_Points(Deref(vresult).Factors) \in 0..8
        /\ Deref(vresult).Confidence = C8_Tier(C8_Points(Deref(vresult).Factors))

\* the suffix points decide the tier: 6 points with them, 4 without
C8_Witness ==
    /\ Evaluated
    /\ HasDot(domain)
    /\ C8_Points(Deref(vresult).Factors) = 6
    /\ Deref(vresult).Factors.TLDScore = F4
    /\ Deref(vresult).Confidence = "high"

(***************************************************************************)
(* Properties of calculateLengthScore (specification SpecLength)           *)
(***************************************************************************)
C7_Tier(n) ==
    IF n \in 0..3 THEN 10
    ELSE IF n \in 4..5 THEN 8
    ELSE IF n \in 6..7 THEN 6
    ELSE IF n \in 8..10 THEN 4
    ELSE IF n \in 11..15 THEN 2
    ELSE 1

\* C7: calculateLengthScore(n) is 10 for n <= 3, 8 for n <= 5, 6 for n <= 7,
\* 4 for n <= 10, 2 for n <= 15 and 1 above; so m <= n implies
\* score(m) >= score(n).
C7_LengthTiers ==
    lengthOut # Nil =>
        /\ Deref(lengthOut)[1] = FFromInt(C7_Tier(Deref(lengthArg)[1]))
        /\ Deref(lengthOut)[2] = FFromInt(C7_Tier(Deref(lengthArg)[2]))
        /\ Deref(lengthArg)[1] <= Deref(lengthArg)[2]
              => FLe(Deref(lengthOut)[2], Deref(lengthOut)[1])

\* the two lengths sit on either side of a tier boundary
C7_Witness ==
    /\ lengthOut # Nil
    /\ Deref(lengthArg) = <<15, 16>>
    /\ Deref(lengthOut) = <<F2, F1>>

(***************************************************************************)
(* Properties of calculateValue (specification SpecValue)                  *)
(***************************************************************************)
C9_Scaled(f, m) ==
    ScaleIf(f.HasHyphens,
        ScaleIf(f.HasNumbers,
            ScaleIf(f.Pronounceable,
                ScaleIf(f.Brandable, m, FLit(15, 10)),
                FLit(12, 10)),
            FLit(7, 10)),
        FLit(6, 10))

C9_Clamp(v) == IF FLt(v, F10) THEN F10 ELSE IF FLt(FMillion, v) THEN FMillion ELSE v

C9_Multiplier(f, fused) ==
    C9_Scaled(f,
        MulThenAdd(FMul(FMul(F1, FMul(FDiv(f.LengthScore, F10), F2)),
                        FDiv(f.CharacterScore, F5)),
                   FDiv(f.TLDScore, F5), FDiv(f.WordScore, F10), fused))

C9_IsIntegerPart(n, v) == FLe(FFromInt(n), v) /\ FLt(v, FFromInt(n + 1))

\* C9: calculateValue returns clamp(100 * m, 10, 1000000), m built from 1 by
\* m *= (lengthScore/10)*2; m *= characterScore/5; m *= suffixScore/5;
\* m += wordScore/10; then *1.5 if brandable, *1.2 if pronounceable, *0.7 if
\* it has digits, *0.6 if it has hyphens.  With a zero character or suffix
\* score the value is clamp(100 * (wordScore/10) * the conditional factors).
\* The EstimatedValue is the integer part of the clamped value.
C9_ValueFormula ==
    valueOut # Nil =>
        /\ Deref(valueOut).value =
               C9_Clamp(FMul(F100, C9_Multiplier(Deref(factorsArg), fusedBuild)))
        /\ (FIsZero(Deref(factorsArg).CharacterScore)
              \/ FIsZero(Deref(factorsArg).TLDScore))
             => Deref(valueOut).value =
                    C9_Clamp(FMul(F100,
                        C9_Scaled(Deref(factorsArg),
                                  FDiv(Deref(factorsArg).WordScore, F10))))
        /\ C9_IsIntegerPart(Deref(valueOut).EstimatedValue, Deref(valueOut).value)

\* a zero character score leaves the word bonus and the conditional factors:
\* 100 * (0.5 * 1.5 * 1.2) is 89.99999999999999 in float64
C9_Witness ==
    /\ valueOut # Nil
    /\ FIsZero(Deref(factorsArg).CharacterScore)
    /\ Deref(factorsArg).WordScore = F5
    /\ Deref(factorsArg).Brandable
    /\ Deref(valueOut).EstimatedValue = 89

(***************************************************************************)
(* Properties of AnalyzeDomain (specification SpecAnalyze)                 *)
(***************************************************************************)
\* C10: for a non-empty domain AnalyzeDomain returns a result and no error,
\* whatever the DOMA, blockchain, DNS and WHOIS lookups did, and the
\* result's ValuationData is non-nil and equal to Evaluate(domain).
C10_AlwaysValued ==
    (analysis # Nil /\ domain # <<>>) =>
        /\ Deref(analysis).err = Nil
        /\ Deref(analysis).res # Nil
        /\ Deref(Deref(analysis).res).ValuationData # Nil
        /\ Deref(Deref(analysis).res).ValuationData =
               Ptr(Evaluate(engine, domain, fusedBuild))

\* DNS found nothing and the WHOIS query failed; the valuation is there
C10_Witness ==
    /\ analysis # Nil
    /\ Deref(analysis).res # Nil
    /\ DNSFound(Deref(net).answers) = {}
    /\ Deref(Deref(analysis).res).WhoisData # Nil
    /\ Deref(Deref(Deref(analysis).res).WhoisData).Error =
           "failed to connect to WHOIS server"
    /\ Deref(Deref(analysis).res).ValuationData # Nil
    /\ Deref(Deref(Deref(analysis).res).ValuationData).EstimatedValue > 10

(***************************************************************************)
(* More properties of AnalyzeDomain (specification SpecAnalyze)            *)
(***************************************************************************)
Analyzed == analysis # Nil /\ Deref(analysis).res # Nil

\* C11: whenever a DNS, WHOIS or blockchain lookup fails during
\* AnalyzeDomain, the collaborator's record is present in the analysis result
\* and its Error field holds the failure (it is not dropped, and not turned
\* into an "available" answer).
C11_FailuresCaptured ==
    Analyzed =>
        /\ (LookupsMade(domain)
              /\ \E t \in DOMAIN Deref(net).answers : Deref(net).answers[t] = "error")
             => /\ Deref(Deref(analysis).res).DNSAvailability # Nil
                /\ Deref(Deref(Deref(analysis).res).DNSAvailability).Error # ""
        /\ (LookupsMade(domain) /\ getWhoisServer(domain) # ""
              /\ Deref(net).reply.err # "")
             => /\ Deref(Deref(analysis).res).WhoisData # Nil
                /\ Deref(Deref(Deref(analysis).res).WhoisData).Error # ""
        /\ (isBlockchainDomain(domain) /\ BlockchainCheck(domain).err # Nil)
             => /\ Deref(Deref(analysis).res).BlockchainData # Nil
                /\ Deref(Deref(Deref(analysis).res).BlockchainData).Error # ""

\* C13: for every domain ending in a blockchain suffix the README lists
\* (.eth, .crypto, .nft, .x, .wallet, .bitcoin, .dao, .888, .zil,
\* .blockchain), the analysis holds a BlockchainData record, of Type "ENS" for
\* .eth and "Unstoppable Domains" for the others.
C13_BlockchainRecordPresent ==
    (Analyzed /\ \E i \in DOMAIN BlockchainTLDs : HasSuffix(domain, BlockchainTLDs[i])) =>
        /\ Deref(Deref(analysis).res).BlockchainData # Nil
        /\ Deref(Deref(Deref(analysis).res).BlockchainData).Type =
               IF HasSuffix(domain, <<".","e","t","h">>)
               THEN "ENS" ELSE "Unstoppable Domains"

(***************************************************************************)
(* Properties of main (specification SpecMain)                             *)
(***************************************************************************)
\* C12: when the command is run without the -domain flag, or with an empty
\* one, it prints the usage text, exits with a non-zero status and runs no
\* analysis.
C12_NoDomainExitsNonZero ==
    (cli # Nil /\ Deref(flags).domain = <<>>) =>
        /\ Deref(cli).usage
        /\ Deref(cli).exit # 0
        /\ analysis = Nil


(***************************************************************************)
(* Properties of concurrent calls (specification SpecConcurrent)           *)
(***************************************************************************)
\* C14: no Evaluate call changes the engine's premium-word list or suffix
\* table, and under every interleaving of the calls that share the engine
\* each call returns exactly what Evaluate returns for its domain when it
\* runs alone on a fresh engine.
C14_SharedEngineIsolated ==
    /\ engine = NewEngine
    /\ \A g \in DOMAIN procs :
          procs[g].pc = "done" =>
              procs[g].result = Ptr(Evaluate(NewEngine, procs[g].dom, fusedBuild))

\* two calls for different dotted domains have both returned, and one
\* returned while the other was between its two reads of the engine
C14_Witness ==
    \E g \in DOMAIN procs, h \in DOMAIN procs :
        /\ procs[g].pc = "done"
        /\ procs[h].pc = "done"
        /\ h \in procs[g].overlap
        /\ procs[g].dom # procs[h].dom
        /\ Deref(procs[g].result).EstimatedValue > 10
        /\ Deref(procs[h].result).EstimatedValue > 10

(***************************************************************************)
(* Properties of the factor scores (specification Spec)                    *)
(***************************************************************************)
\* 1 when the condition holds, 0 otherwise
C15_Ind(cond) == IF cond THEN 1 ELSE 0

\* the claimed character score in halves: 5.0 - 2.0 - 1.5 + 1.0 - 0.5
C15_Halves(name) ==
    10 - 4 * C15_Ind(\E i \in DOMAIN name : IsDigit(name[i]))
       - 3 * C15_Ind(\E i \in DOMAIN name : name[i] = "-")
       + 2 * C15_Ind(\A i \in DOMAIN name : IsLetter(name[i]))
       - C15_Ind((\E i \in DOMAIN name : IsUpper(name[i])) /\
                 (\E i \in DOMAIN name : IsLower(name[i])))

C15_Claimed(name) ==
    FDiv(FFromInt(IF C15_Halves(name) < 0 THEN 0 ELSE C15_Halves(name)), F2)

\* C15: the character score of every name is max(0, 5.0 - 2.0 [has a digit]
\* - 1.5 [contains '-'] + 1.0 [every character is a letter] - 0.5 [has an
\* upper-case and a lower-case letter]); the terms apply independently and
\* add up, and the empty name scores 6.0.
C15_CharacterScoreFormula ==
    (Evaluated /\ HasDot(domain)) =>
        /\ Deref(vresult).Factors.CharacterScore = C15_Claimed(EvaluateName(domain))
        /\ EvaluateName(domain) = <<>> => Deref(vresult).Factors.CharacterScore = F6

\* a name with a digit, a hyphen and both cases: all three penalties add up
C15_Witness ==
    /\ Evaluated
    /\ HasDot(domain)
    /\ C15_Halves(EvaluateName(domain)) = 2
    /\ Deref(vresult).Factors.CharacterScore = F1

\* the empty name has been scored
C15_WitnessEmpty ==
    /\ Evaluated
    /\ HasDot(domain)
    /\ EvaluateName(domain) = <<>>
    /\ Deref(vresult).Factors.CharacterScore = F6

\* the word occurs in the name
C16_Occurs(n, w) ==
    \E k \in 1..Len(n) :
        /\ k + Len(w) - 1 <= Len(n)
        /\ \A j \in 1..Len(w) : n[k + j - 1] = w[j]

\* the premium words that occur in the name
C16_PremiumWordsIn(words, n) ==
    Cardinality({i \in DOMAIN words : C16_Occurs(n, words[i])})

C16_IsDictionaryWord(n) == n \in {CommonWords[i] : i \in DOMAIN CommonWords}

\* len(): one for each rune, two for a two-byte letter
C16_Bytes(n) == Len(n) + Cardinality({i \in DOMAIN n : n[i] \in MultiByteLetters})

C16_StartsWith(n, a) ==
    /\ Len(a) <= Len(n)
    /\ \A j \in 1..Len(a) : n[j] = a[j]
    /\ C16_Bytes(n) > C16_Bytes(a) + 2

C16_EndsWith(n, a) ==
    /\ Len(a) <= Len(n)
    /\ \A j \in 1..Len(a) : n[Len(n) - Len(a) + j] = a[j]
    /\ C16_Bytes(n) > C16_Bytes(a) + 2

C16_IsCompound(n) ==
    /\ C16_Bytes(n) >= 6
    /\ \/ \E i \in DOMAIN CompoundPrefixes : C16_StartsWith(n, CompoundPrefixes[i])
       \/ \E i \in DOMAIN CompoundSuffixes : C16_EndsWith(n, CompoundSuffixes[i])

C16_Sum(words, n) ==
    3 * C16_PremiumWordsIn(words, n)
        + 2 * C15_Ind(C16_IsDictionaryWord(n))
        + C15_Ind(C16_IsCompound(n))

C16_NameLower == ToLower(EvaluateName(domain))

\* C16: the word score of every name is the sum of 3.0 for each premium word
\* that occurs in the lower-cased name (words that overlap each count; a word
\* counts once however often it occurs), 2.0 if the lower-cased name equals a
\* dictionary word, and 1.0 if the name has at least 6 bytes and starts or
\* ends with a listed affix that is more than 2 bytes shorter.  The premium
\* bonus combines with either of the other two; the dictionary bonus and the
\* compound bonus never meet, every dictionary word being shorter than 6.
C16_WordScoreSum ==
    (Evaluated /\ HasDot(domain)) =>
        /\ Deref(vresult).Factors.WordScore =
               FFromInt(C16_Sum(engine.premiumWords, C16_NameLower))
        /\ ~(C16_IsDictionaryWord(C16_NameLower) /\ C16_IsCompound(C16_NameLower))

\* a name that earns the premium bonus and the compound bonus
C16_Witness ==
    /\ Evaluated
    /\ HasDot(domain)
    /\ C16_PremiumWordsIn(engine.premiumWords, C16_NameLower) = 1
    /\ C16_IsCompound(C16_NameLower)
    /\ Deref(vresult).Factors.WordScore = F4

\* a name that earns the premium bonus and the dictionary bonus
C16_WitnessDictionary ==
    /\ Evaluated
    /\ HasDot(domain)
    /\ C16_PremiumWordsIn(engine.premiumWords, C16_NameLower) = 1
    /\ C16_IsDictionaryWord(C16_NameLower)
    /\ Deref(vresult).Factors.WordScore = F5

\* C16 as stated: the sum above, and some name earns all three bonuses at
\* once; such a name equals a dictionary word, so it is one of them
C16_AllThreeAtOnce ==
    /\ (Evaluated /\ HasDot(domain)) =>
           Deref(vresult).Factors.WordScore =
               FFromInt(C16_Sum(engine.premiumWords, C16_NameLower))
    /\ \E i \in DOMAIN CommonWords :
           /\ C16_PremiumWordsIn(engine.premiumWords, CommonWords[i]) >= 1
           /\ C16_IsCompound(CommonWords[i])

\* the claimed suffix score: the table is read with the lower-cased suffix
C17_Claimed(table, s) ==
    IF ToLower(s) \in DOMAIN table THEN FMul(F5, table[ToLower(s)]) ELSE F1

\* C17: the suffix score is 5.0 times the coefficient of the suffix when the
\* suffix premium table has it, every coefficient lying between 0 and 1, and
\* 1.0 when it has not; the table is read with the lower-cased suffix, so the
\* letter case of the suffix does not change its score.
C17_SuffixScoreIgnoresCase ==
    /\ \A s \in DOMAIN engine.commonTLDs :
          FLe(F0, engine.commonTLDs[s]) /\ FLe(engine.commonTLDs[s], F1)
    /\ (Evaluated /\ HasDot(domain)) =>
          Deref(vresult).Factors.TLDScore =
              C17_Claimed(engine.commonTLDs, EvaluateTLD(domain))

\* v: the vowels of the lower-cased name
C18_Vowels(name) ==
    Cardinality({i \in DOMAIN name : ToLowerRune(name[i]) \in {"a", "e", "i", "o", "u"}})

\* c: its other letters
C18_Consonants(name) ==
    Cardinality({i \in DOMAIN name :
                    /\ IsLetter(ToLowerRune(name[i]))
                    /\ ToLowerRune(name[i]) \notin {"a", "e", "i", "o", "u"}})

\* C18: with v the number of vowels and c the number of other letters of the
\* lower-cased name, the name is pronounceable exactly when v is not 0 and
\* 0.5 <= c/v <= 4.0, both bounds included: v <= 2c and c <= 4v.
C18_PronounceableIff ==
    (Evaluated /\ HasDot(domain)) =>
        (Deref(vresult).Factors.Pronounceable <=>
            /\ C18_Vowels(EvaluateName(domain)) # 0
            /\ C18_Vowels(EvaluateName(domain)) <= 2 * C18_Consonants(EvaluateName(domain))
            /\ C18_Consonants(EvaluateName(domain)) <= 4 * C18_Vowels(EvaluateName(domain)))

\* a name on the upper bound, four consonants for one vowel, is pronounceable
C18_Witness ==
    /\ Evaluated
    /\ HasDot(domain)
    /\ C18_Vowels(EvaluateName(domain)) = 1
    /\ C18_Consonants(EvaluateName(domain)) = 4
    /\ Deref(vresult).Factors.Pronounceable

\* a name on the lower bound, one consonant for two vowels, is pronounceable
C18_WitnessLow ==
    /\ Evaluated
    /\ HasDot(domain)
    /\ C18_Vowels(EvaluateName(domain)) = 2
    /\ C18_Consonants(EvaluateName(domain)) = 1
    /\ Deref(vresult).Factors.Pronounceable

(***************************************************************************)
(* Properties of the reasoning string (specification Spec)                 *)
(***************************************************************************)
\* the clauses in their fixed order, each with the condition that applies it
C19_Clauses(f) ==
    << [on |-> f.Length <= 3, text |-> "Very short domain (premium)"],
       [on |-> f.Length > 3 /\ f.Length <= 5, text |-> "Short and memorable"],
       [on |-> f.Length > 15, text |-> "Long domain name"],
       [on |-> f.Brandable, text |-> "Brandable name"],
       [on |-> f.Pronounceable, text |-> "Easy to pronounce"],
       [on |-> ~FLe(f.WordScore, F2), text |-> "Contains valuable keywords"],
       [on |-> f.HasNumbers, text |-> "Contains numbers (reduces value)"],
       [on |-> f.HasHyphens, text |-> "Contains hyphens (reduces value)"] >>

\* the clauses k.. that apply, each after the first led by "; "
RECURSIVE C19_From(_, _, _)
C19_From(f, k, first) ==
    IF k > Len(C19_Clauses(f)) THEN ""
    ELSE IF ~C19_Clauses(f)[k].on THEN C19_From(f, k + 1, first)
    ELSE (IF first THEN "" ELSE "; ") \o C19_Clauses(f)[k].text
             \o C19_From(f, k + 1, FALSE)

C19_Applying(f) == {k \in DOMAIN C19_Clauses(f) : C19_Clauses(f)[k].on}

\* C19: the reasoning is the clauses that apply, joined by "; " in the order
\* length tier, brandable, pronounceable, word value, digit penalty, hyphen
\* penalty; at most one length clause applies (length <= 3, else <= 5, else
\* > 15, none for 6..15), the word-value clause applies iff the word score
\* exceeds 2, and "Standard domain name" is returned iff no clause applies;
\* the factors and the estimate of the result are those computed before it.
C19_ReasoningClauses ==
    (Evaluated /\ HasDot(domain)) =>
        /\ Cardinality(C19_Applying(Deref(vresult).Factors) \cap 1..3) <= 1
        /\ (Deref(vresult).Factors.Length \in 6..15) =>
               C19_Applying(Deref(vresult).Factors) \cap 1..3 = {}
        /\ Deref(vresult).Reasoning =
               IF C19_Applying(Deref(vresult).Factors) = {}
               THEN "Standard domain name"
               ELSE C19_From(Deref(vresult).Factors, 1, TRUE)
        /\ (Deref(vresult).Reasoning = "Standard domain name") <=>
               (C19_Applying(Deref(vresult).Factors) = {})
        /\ Deref(vresult).Factors =
               analyzeDomain(engine, EvaluateName(domain), EvaluateTLD(domain))
        /\ Deref(vresult).EstimatedValue =
               FTrunc(calculateValue(Deref(vresult).Factors, fusedBuild))

\* a result with a length clause and three more, and a word score of 2 or
\* less that adds none
C19_Witness ==
    /\ Evaluated
    /\ HasDot(domain)
    /\ Cardinality(C19_Applying(Deref(vresult).Factors)) = 4
    /\ 2 \in C19_Applying(Deref(vresult).Factors)
    /\ 6 \notin C19_Applying(Deref(vresult).Factors)

\* a result to which no clause applies
C19_WitnessFallback ==
    /\ Evaluated
    /\ HasDot(domain)
    /\ C19_Applying(Deref(vresult).Factors) = {}
    /\ Deref(vresult).Reasoning = "Standard domain name"

\* a result whose word score is exactly 2
C19_WitnessWordScore2 ==
    /\ Evaluated
    /\ HasDot(domain)
    /\ Deref(vresult).Factors.WordScore = F2
    /\ 6 \notin C19_Applying(Deref(vresult).Factors)

(***************************************************************************)
(* Properties of the multiplier (specification Spec)                       *)
(***************************************************************************)
\* the multiplier after its three multiplicative score terms
C20_ProductOfScores(f) ==
    FMul(FMul(FMul(F1, FMul(FDiv(f.LengthScore, F10), F2)),
              FDiv(f.CharacterScore, F5)),
         FDiv(f.TLDScore, F5))

\* C20: in every result for a domain with a '.', the length score, the
\* character score and the suffix score are at least 1.0 (the character
\* score never reaches its floor of 0), so the multiplier is above 0 when
\* the word bonus is added.
C20_ScoresAtLeastOne ==
    (Evaluated /\ HasDot(domain)) =>
        /\ FLe(F1, Deref(vresult).Factors.LengthScore)
        /\ FLe(F1, Deref(vresult).Factors.CharacterScore)
        /\ FLe(F1, Deref(vresult).Factors.TLDScore)
        /\ FLt(F0, C20_ProductOfScores(Deref(vresult).Factors))

\* the lowest character score: a name with a digit, a hyphen and both cases,
\* under a suffix the table does not have
C20_Witness ==
    /\ Evaluated
    /\ HasDot(domain)
    /\ Deref(vresult).Factors.HasNumbers
    /\ Deref(vresult).Factors.HasHyphens
    /\ hasMixedCase(EvaluateName(domain))
    /\ Deref(vresult).Factors.CharacterScore = F1
    /\ Deref(vresult).Factors.TLDScore = F1

(***************************************************************************)
(* Properties of the confidence tier (specification Spec)                  *)
(***************************************************************************)
\* C21: in every result of Evaluate a brandable name has Confidence "medium"
\* or "high", never "low": it is pronounceable and has neither digits nor
\* hyphens, so its point total is at least 4.
C21_BrandableNeverLow ==
    (Evaluated /\ Deref(vresult).Factors.Brandable) =>
        /\ Deref(vresult).Confidence \in {"medium", "high"}
        /\ Deref(vresult).Factors.Pronounceable
        /\ ~Deref(vresult).Factors.HasNumbers
        /\ ~Deref(vresult).Factors.HasHyphens
        /\ C8_Points(Deref(vresult).Factors) >= 4

\* a brandable name with no other points: longer than 5, under a suffix
\* that scores below 4.0, rated "medium" on exactly 4 points
C21_Witness ==
    /\ Evaluated
    /\ Deref(vresult).Factors.Brandable
    /\ Deref(vresult).Factors.Length > 5
    /\ FLt(Deref(vresult).Factors.TLDScore, F4)
    /\ C8_Points(Deref(vresult).Factors) = 4
    /\ Deref(vresult).Confidence = "medium"

\* C22: in every result of Evaluate a name with a digit or a hyphen never
\* has Confidence "high": it is not brandable and does not get the
\* clean-name point, so its point total is at most 5.
C22_DigitOrHyphenNeverHigh ==
    (Evaluated /\ (Deref(vresult).Factors.HasNumbers \/ Deref(vresult).Factors.HasHyphens)) =>
        /\ Deref(vresult).Confidence # "high"
        /\ ~Deref(vresult).Factors.Brandable
        /\ C8_Points(Deref(vresult).Factors) <= 5

\* a name with a digit and a hyphen that collects every point left to it:
\* short, pronounceable, under a suffix that scores 4.0 or more
C22_Witness ==
    /\ Evaluated
    /\ Deref(vresult).Factors.HasNumbers
    /\ Deref(vresult).Factors.HasHyphens
    /\ C8_Points(Deref(vresult).Factors) = 5
    /\ Deref(vresult).Confidence = "medium"

(***************************************************************************)
(* The lookup routes of AnalyzeDomain (specification SpecAnalyze)          *)
(***************************************************************************)
\* the domain ends in one of the blockchain suffixes
C23_EndsInBlockchainSuffix(dom) ==
    \E i \in DOMAIN BlockchainTLDs :
        /\ Len(BlockchainTLDs[i]) <= Len(dom)
        /\ \A j \in 1..Len(BlockchainTLDs[i]) :
              dom[Len(dom) - Len(BlockchainTLDs[i]) + j] = BlockchainTLDs[i][j]

\* C23: in every result of AnalyzeDomain the lookup routes exclude each
\* other: a domain ending in a blockchain suffix is checked by the
\* blockchain checker only (DNSAvailability and WhoisData stay nil), every
\* other domain by DNS and WHOIS only (BlockchainData stays nil), so
\* BlockchainData is never present together with DNSAvailability or
\* WhoisData; and the DOMA check is the first call made, for every domain.
C23_RoutesExclusive ==
    Analyzed =>
        /\ C23_EndsInBlockchainSuffix(domain) =>
              /\ Deref(Deref(analysis).res).DNSAvailability = Nil
              /\ Deref(Deref(analysis).res).WhoisData = Nil
              /\ Deref(net).calls = <<"doma", "blockchain", "valuation">>
        /\ ~C23_EndsInBlockchainSuffix(domain) =>
              /\ Deref(Deref(analysis).res).BlockchainData = Nil
              /\ Deref(net).calls = <<"doma", "dns", "whois", "valuation">>
        /\ ~(/\ Deref(Deref(analysis).res).BlockchainData # Nil
             /\ \/ Deref(Deref(analysis).res).DNSAvailability # Nil
                \/ Deref(Deref(analysis).res).WhoisData # Nil)
        /\ Head(Deref(net).calls) = "doma"
        /\ Deref(Deref(analysis).res).DomaData # Nil

\* a blockchain domain with its blockchain record and nothing from DNS or
\* WHOIS
C23_Witness ==
    /\ Analyzed
    /\ C23_EndsInBlockchainSuffix(domain)
    /\ Deref(Deref(analysis).res).BlockchainData # Nil
    /\ Deref(Deref(analysis).res).DNSAvailability = Nil
    /\ Deref(Deref(analysis).res).WhoisData = Nil
    /\ Deref(Deref(analysis).res).DomaData # Nil

\* a traditional domain with its DNS and WHOIS records and no blockchain
\* record
C23_WitnessTraditional ==
    /\ Analyzed
    /\ ~C23_EndsInBlockchainSuffix(domain)
    /\ Deref(Deref(analysis).res).BlockchainData = Nil
    /\ Deref(Deref(analysis).res).DNSAvailability # Nil
    /\ Deref(Deref(analysis).res).WhoisData # Nil
=============================================================================
